---------------------------- MODULE Spec2Model ----------------------------
(***************************************************************************)
(* A model of nuntius: the X3DH exchange, the double ratchet, the relay's  *)
(* key store and router, and the client's StartChat handshake.             *)
(*                                                                         *)
(* Byte strings are symbolic terms.  Every term is a tuple whose first     *)
(* element is a tag, so that two terms are equal exactly when they were    *)
(* built the same way (hash functions and Diffie-Hellman are modelled as   *)
(* injective, X25519 as commutative).  Nil is Go's nil slice.              *)
(***************************************************************************)
EXTENDS Integers, Sequences, FiniteSets, TLC

VARIABLES
    ratchet,      \* side -> DoubleRatchet struct
    wire,         \* side -> ciphertexts produced for that side, not yet decrypted
    encCount,     \* number of Encrypt calls made so far
    forgeCount,   \* number of forged blobs handed to Decrypt so far
    nextScalar,   \* the next fresh scalar rand.Read gives GenerateExchange
    last,         \* outcome of the latest Decrypt call
    sentKeys,     \* side -> the message keys its Encrypt calls used, in order
    xparams,      \* key material of one X3DH exchange
    forward,      \* what ForwardExchange returned on it
    backward,     \* what BackwardExchange returned on it
    prekeyTable,  \* relay table prekey: identity -> (prekey, signature) row
    onetimeTable, \* relay table onetime: rows (id, identity, onetime)
    uploads,      \* number of bundle uploads the relay has stored
    firstUpload,  \* the first bundle upload the relay stored
    reply,        \* the latest HTTP reply of the relay
    since,        \* identity -> session answers since its latest bundle upload
    handedKeys,   \* identity -> one-time keys the relay has handed out for it
    handedTwice,  \* some key was handed out again for the same identity
    requests,     \* number of session requests made so far
    handler,      \* request handler -> where it is in sessionHandler
    request,      \* the latest upload request served, as it was received
    identityTable, \* client table identity: rows (id, public, private)
    generated,    \* identity pairs GenerateIdentity has made so far
    channels,     \* router.channels: identity -> the stream whose channel it holds
    reader,       \* stream -> where its listen loop is
    up,           \* stream -> frames the client wrote, not yet read
    down,         \* stream -> frames pushed to it, not yet read by the client
    client,       \* client -> where it is in StartChat, and its store
    rawCount      \* frames written so far on the hand-driven stream

ratchetVars ==
    <<ratchet, wire, encCount, forgeCount, nextScalar, last, sentKeys>>

exchangeVars == <<xparams, forward, backward>>

storeVars == <<prekeyTable, onetimeTable>>

relayVars ==
    <<storeVars, uploads, firstUpload, reply, since, handedKeys, handedTwice,
      requests, handler>>

chatVars == <<channels, reader, up, down, client, rawCount>>

commandVars == <<identityTable, generated>>

vars ==
    <<ratchetVars, exchangeVars, relayVars, chatVars, request, commandVars>>

-----------------------------------------------------------------------------
(* Bounds *)

MaxMsgs == 5

MaxForged == 1

\* Identities an exchange pair may be drawn from.
NIds == 2

NScalars == 3

\* Keys per uploaded bundle (bundleSize in the client; the relay takes any).
BundleLen == 2

MaxUploads == 2

MaxRequests == 4

\* Concurrent request handlers.
NProcs == 2

\* Text messages a client sends once connected.
MaxChat == 1

\* Frames written on the hand-driven stream.
MaxRaw == 1

\* Calls of StartChat on one store.
MaxRuns == 3

\* Identity pairs generated on one store.
MaxGenerate == 7

-----------------------------------------------------------------------------
(* Primitives: exchange keys, identities *)

Nil == <<>>

\* The n-th scalar read from the random source.
Scalar(n) == <<"x", n>>

\* curve25519.X25519(scalar, Basepoint)
PubOf(priv) == <<"pub", priv>>

GenerateExchange(n) == [pub |-> PubOf(Scalar(n)), priv |-> Scalar(n)]

\* A point of small order: X25519 rejects it (all-zero output).
LowOrderPoint == <<"pub", <<"loworder", 0>>>>

IsPoint(p) == Len(p) = 2 /\ p[1] = "pub" /\ p # LowOrderPoint

\* ExchangePriv.exchange: X25519(priv, pub); commutative in the two scalars.
exchange(priv, pub) ==
    IF IsPoint(pub)
    THEN [err |-> FALSE, out |-> <<"dh", {priv, pub[2]}>>]
    ELSE [err |-> TRUE, out |-> Nil]

\* Identity keys: the i-th pair ed25519.GenerateKey returns.
IdentityPub(i) == <<"id", i>>

IdentityPriv(i) == <<"idpriv", i>>

\* IdentityPriv.toExchange: the first 32 bytes of SHA-512 of the seed, which
\* is the scalar whose Edwards multiple of the base point the public key is.
PrivToExchange(priv) == <<"idx", priv[2]>>

\* IdentityPub.toExchange: the Montgomery form of the Edwards point.
PubToExchange(pub) ==
    IF Len(pub) = 2 /\ pub[1] = "id"
    THEN [err |-> FALSE, out |-> PubOf(<<"idx", pub[2]>>)]
    ELSE [err |-> TRUE, out |-> Nil]

\* ed25519.Sign / ed25519.Verify
Sign(priv, data) == <<"sig", priv[2], data>>

\* A check of the signed bytes that leaves out whose key signed them.
Verify_AnySigner(pub, data, sig) ==
    Len(sig) = 3 /\ sig[1] = "sig" /\ sig[3] = data

\* The result of the check ignored.
Verify_Unchecked(pub, data, sig) == TRUE

Verify(pub, data, sig) == sig = <<"sig", pub[2], data>>

-----------------------------------------------------------------------------
(* KDFs *)

\* HKDF-SHA512(secret, salt = nil, info = exchangeInfo), 32 bytes.
exchangeKdf(secret) == <<"hkdf-x3dh", secret>>

\* Both keys read from the start of the HKDF stream.
kdfRootKey_OneBlock(rk, dhOut) ==
    [rootKey |-> <<"hkdf-rk", rk, dhOut>>, chainKey |-> <<"hkdf-rk", rk, dhOut>>]

\* HKDF-SHA256(ikm = dhOut, salt = rk, info): first 32 bytes, next 32 bytes.
kdfRootKey(rk, dhOut) ==
    [rootKey |-> <<"hkdf-rk", rk, dhOut>>, chainKey |-> <<"hkdf-ck", rk, dhOut>>]

\* HMAC-SHA256(ck, 0x00), HMAC-SHA256(ck, 0x01)
kdfChainKey(ck) ==
    [chainKey |-> <<"hmac0", ck>>, messageKey |-> <<"hmac1", ck>>]

-----------------------------------------------------------------------------
(* AEAD (AES-GCM, random nonce) *)

\* The GCM tag: a MAC under the key over nonce, ciphertext and associated
\* data.
Tag(key, nonce, plaintext, additional) ==
    <<"tag", key, nonce, plaintext, additional>>

\* Seal called with no associated data.
AeadEncrypt_NoAdditional(key, nonce, plaintext, additional) ==
    [key |-> key, nonce |-> nonce, pt |-> plaintext, aad |-> additional,
     tag |-> Tag(key, nonce, plaintext, Nil)]

\* nonce || Seal(plaintext, additional): the nonce, the plaintext under the
\* key's stream (key, pt), and the tag.
AeadEncrypt(key, nonce, plaintext, additional) ==
    [key |-> key, nonce |-> nonce, pt |-> plaintext, aad |-> additional,
     tag |-> Tag(key, nonce, plaintext, additional)]

\* Open with the associated data the ciphertext was sealed with in place
\* of the caller's.
AeadDecrypt_SealedAad(key, body, additional) ==
    IF body # Nil /\ body.key = key
       /\ body.tag = Tag(key, body.nonce, body.pt, body.aad)
    THEN [err |-> FALSE, out |-> body.pt]
    ELSE [err |-> TRUE, out |-> Nil]

\* Open: fails unless the tag verifies under this key over the nonce and
\* ciphertext presented and the caller's associated data.
AeadDecrypt(key, body, additional) ==
    IF body # Nil /\ body.key = key
       /\ body.tag = Tag(key, body.nonce, body.pt, additional)
    THEN [err |-> FALSE, out |-> body.pt]
    ELSE [err |-> TRUE, out |-> Nil]

concat(a, b) == <<a, b>>

-----------------------------------------------------------------------------
(* X3DH *)

\* BackwardExchange with the first two products in the initiator's roles
\* (prekey with the ephemeral's place and identity with the prekey's).
BackwardExchange_Swapped(them, ephemeral, identity, prekey, onetime) ==
    LET themX == PubToExchange(them)
        idX == PrivToExchange(identity)
        dh1 == exchange(idX, ephemeral)
        dh2 == exchange(prekey, themX.out)
        dh3 == exchange(prekey, ephemeral)
        dh4 == exchange(onetime, ephemeral)
    IN  IF themX.err \/ dh1.err \/ dh2.err \/ dh3.err
        THEN [err |-> TRUE, out |-> Nil]
        ELSE IF onetime = Nil
        THEN [err |-> FALSE, out |-> exchangeKdf(<<dh1.out, dh2.out, dh3.out>>)]
        ELSE IF dh4.err
        THEN [err |-> TRUE, out |-> Nil]
        ELSE [err |-> FALSE,
              out |-> exchangeKdf(<<dh1.out, dh2.out, dh3.out, dh4.out>>)]

\* me, ephemeral: the initiator's secrets; identity, prekey, onetime: the
\* recipient's public keys (onetime may be Nil).
ForwardExchange(me, ephemeral, identity, prekey, onetime) ==
    LET meX == PrivToExchange(me)
        idX == PubToExchange(identity)
        dh1 == exchange(meX, prekey)
        dh2 == exchange(ephemeral, idX.out)
        dh3 == exchange(ephemeral, prekey)
        dh4 == exchange(ephemeral, onetime)
    IN  IF idX.err \/ dh1.err \/ dh2.err \/ dh3.err
        THEN [err |-> TRUE, out |-> Nil]
        ELSE IF onetime = Nil
        THEN [err |-> FALSE, out |-> exchangeKdf(<<dh1.out, dh2.out, dh3.out>>)]
        ELSE IF dh4.err
        THEN [err |-> TRUE, out |-> Nil]
        ELSE [err |-> FALSE,
              out |-> exchangeKdf(<<dh1.out, dh2.out, dh3.out, dh4.out>>)]

\* them, ephemeral: the initiator's public keys; identity, prekey, onetime:
\* the recipient's secrets (onetime may be Nil).
BackwardExchange(them, ephemeral, identity, prekey, onetime) ==
    LET themX == PubToExchange(them)
        idX == PrivToExchange(identity)
        dh1 == exchange(prekey, themX.out)
        dh2 == exchange(idX, ephemeral)
        dh3 == exchange(prekey, ephemeral)
        dh4 == exchange(onetime, ephemeral)
    IN  IF themX.err \/ dh1.err \/ dh2.err \/ dh3.err
        THEN [err |-> TRUE, out |-> Nil]
        ELSE IF onetime = Nil
        THEN [err |-> FALSE, out |-> exchangeKdf(<<dh1.out, dh2.out, dh3.out>>)]
        ELSE IF dh4.err
        THEN [err |-> TRUE, out |-> Nil]
        ELSE [err |-> FALSE,
              out |-> exchangeKdf(<<dh1.out, dh2.out, dh3.out, dh4.out>>)]

NotRun == [done |-> FALSE, err |-> FALSE, out |-> Nil]

\* TestExchangeSymmetry's key material: two identities, an ephemeral, a
\* pre-key and a one-time pair (index 0: no one-time key, nil on both sides).
ExchangeIdle ==
    /\ xparams = [a |-> 1, b |-> 1, eph |-> 1, prekey |-> 1, onetime |-> 0]
    /\ forward = NotRun
    /\ backward = NotRun

ExchangeInit ==
    /\ xparams \in [a : 1..NIds, b : 1..NIds, eph : 1..NScalars,
                    prekey : 1..NScalars, onetime : 0..NScalars]
    /\ forward = NotRun
    /\ backward = NotRun

OnetimePriv(i) == IF i = 0 THEN Nil ELSE GenerateExchange(i).priv

OnetimePub(i) == IF i = 0 THEN Nil ELSE GenerateExchange(i).pub

RunForward ==
    /\ ~forward.done
    /\ LET r == ForwardExchange(IdentityPriv(xparams.a),
                                GenerateExchange(xparams.eph).priv,
                                IdentityPub(xparams.b),
                                GenerateExchange(xparams.prekey).pub,
                                OnetimePub(xparams.onetime))
       IN  forward' = [done |-> TRUE, err |-> r.err, out |-> r.out]
    /\ UNCHANGED <<xparams, backward>>

RunBackward ==
    /\ ~backward.done
    /\ LET r == BackwardExchange(IdentityPub(xparams.a),
                                 GenerateExchange(xparams.eph).pub,
                                 IdentityPriv(xparams.b),
                                 GenerateExchange(xparams.prekey).priv,
                                 OnetimePriv(xparams.onetime))
       IN  backward' = [done |-> TRUE, err |-> r.err, out |-> r.out]
    /\ UNCHANGED <<xparams, forward>>

-----------------------------------------------------------------------------
(* Double ratchet *)

Sides == {"initiator", "receiver"}

Other(s) == IF s = "initiator" THEN "receiver" ELSE "initiator"

EmptyRatchet ==
    [sendingPub |-> Nil, sendingPriv |-> Nil, receivingPub |-> Nil,
     rootKey |-> Nil, sendingKey |-> Nil, receivingKey |-> Nil]

\* The initiator as an earlier revision built it: no root KDF step.
DoubleRatchetFromInitiator_NoKdf(secret, receivingPub, n) ==
    [EmptyRatchet EXCEPT !.receivingPub = receivingPub,
                         !.sendingPub = GenerateExchange(n).pub,
                         !.sendingPriv = GenerateExchange(n).priv,
                         !.rootKey = secret]

DoubleRatchetFromInitiator(secret, receivingPub, n) ==
    LET kp == GenerateExchange(n)
        exchanged == exchange(kp.priv, receivingPub)
        k == kdfRootKey(secret, exchanged.out)
    IN  [EmptyRatchet EXCEPT !.receivingPub = receivingPub,
                             !.sendingPub = kp.pub,
                             !.sendingPriv = kp.priv,
                             !.rootKey = k.rootKey,
                             !.sendingKey = k.chainKey]

DoubleRatchetFromReceiver(secret, pub, priv) ==
    [EmptyRatchet EXCEPT !.sendingPub = pub, !.sendingPriv = priv,
                         !.rootKey = secret]

\* A blob on the wire: header || nonce || ciphertext || tag.
\* short: fewer than ExchangePubSize bytes.
Blob(header, body) == [short |-> FALSE, header |-> header, body |-> body]

ShortBlob == [short |-> TRUE, header |-> Nil, body |-> Nil]

\* Encrypt with the assignment to ratchet.sendingKey left out.
Encrypt_NoAdvance(r, plaintext, additional, nonce) ==
    LET k == kdfChainKey(r.sendingKey)
        header == r.sendingPub
    IN  [ratchet |-> r,
         out |-> Blob(header,
                      AeadEncrypt(k.messageKey, nonce, plaintext,
                                  concat(header, additional)))]

\* Encrypt with the peer's public key as the header.
Encrypt_PeerHeader(r, plaintext, additional, nonce) ==
    LET k == kdfChainKey(r.sendingKey)
        header == r.receivingPub
    IN  [ratchet |-> [r EXCEPT !.sendingKey = k.chainKey],
         out |-> Blob(header,
                      AeadEncrypt(k.messageKey, nonce, plaintext,
                                  concat(header, additional)))]

\* Encrypt advances the chain key in place and returns the blob.
Encrypt(r, plaintext, additional, nonce) ==
    LET k == kdfChainKey(r.sendingKey)
        header == r.sendingPub
    IN  [ratchet |-> [r EXCEPT !.sendingKey = k.chainKey],
         out |-> Blob(header,
                      AeadEncrypt(k.messageKey, nonce, plaintext,
                                  concat(header, additional)))]

\* errors.New("ciphertext does not contain public key")
NoPublicKey == "ciphertext does not contain public key"

\* The error curve25519.X25519 returns, passed on as it is.
ExchangeError == "error of curve25519.X25519"

\* The error of MessageKey.Decrypt: its own for a ciphertext shorter than a
\* nonce, else the one aead.Open returns.
OpenError(body) ==
    IF body = Nil THEN "ciphertext doesn't contain nonce"
    ELSE "error of aead.Open"

\* The end of Decrypt with the assignment to ratchet.receivingKey left out.
DecryptTail_NoAdvance(r, blob, additional) ==
    LET k == kdfChainKey(r.receivingKey)
        opened == AeadDecrypt(k.messageKey, blob.body,
                              concat(blob.header, additional))
    IN  [ratchet |-> r, err |-> opened.err, out |-> opened.out,
         msg |-> IF opened.err THEN OpenError(blob.body) ELSE ""]

\* The symmetric step and the AEAD open that end Decrypt.
DecryptTail(r, blob, additional) ==
    LET k == kdfChainKey(r.receivingKey)
        r1 == [r EXCEPT !.receivingKey = k.chainKey]
        opened == AeadDecrypt(k.messageKey, blob.body,
                              concat(blob.header, additional))
    IN  [ratchet |-> r1, err |-> opened.err, out |-> opened.out,
         msg |-> IF opened.err THEN OpenError(blob.body) ELSE ""]

\* Decrypt with the test of the blob's length left out.
Decrypt_NoLengthCheck(r, blob, additional, n) ==
    IF blob.header # r.receivingPub
    THEN LET r1 == [r EXCEPT !.receivingPub = blob.header]
             receivingExchange == exchange(r1.sendingPriv, r1.receivingPub)
         IN  IF receivingExchange.err
             THEN [ratchet |-> r1, err |-> TRUE, out |-> Nil,
                   msg |-> ExchangeError]
             ELSE LET k1 == kdfRootKey(r1.rootKey, receivingExchange.out)
                      kp == GenerateExchange(n)
                      sendingExchange == exchange(kp.priv, r1.receivingPub)
                      k2 == kdfRootKey(k1.rootKey, sendingExchange.out)
                      r2 == [r1 EXCEPT !.rootKey = k2.rootKey,
                                       !.receivingKey = k1.chainKey,
                                       !.sendingPub = kp.pub,
                                       !.sendingPriv = kp.priv,
                                       !.sendingKey = k2.chainKey]
                  IN  DecryptTail(r2, blob, additional)
    ELSE DecryptTail(r, blob, additional)

\* Decrypt with the comparison of the header to receivingPub left out: the
\* Diffie-Hellman step runs on every blob.
Decrypt_AlwaysDH(r, blob, additional, n) ==
    IF blob.short
    THEN [ratchet |-> r, err |-> TRUE, out |-> Nil, msg |-> NoPublicKey]
    ELSE LET r1 == [r EXCEPT !.receivingPub = blob.header]
             receivingExchange == exchange(r1.sendingPriv, r1.receivingPub)
         IN  IF receivingExchange.err
             THEN [ratchet |-> r1, err |-> TRUE, out |-> Nil,
                   msg |-> ExchangeError]
             ELSE LET k1 == kdfRootKey(r1.rootKey, receivingExchange.out)
                      kp == GenerateExchange(n)
                      sendingExchange == exchange(kp.priv, r1.receivingPub)
                      k2 == kdfRootKey(k1.rootKey, sendingExchange.out)
                      r2 == [r1 EXCEPT !.rootKey = k2.rootKey,
                                       !.receivingKey = k1.chainKey,
                                       !.sendingPub = kp.pub,
                                       !.sendingPriv = kp.priv,
                                       !.sendingKey = k2.chainKey]
                  IN  DecryptTail(r2, blob, additional)

\* Decrypt mutates the struct as it goes; an early return keeps what was
\* assigned before it.  n is the scalar GenerateExchange draws.
Decrypt(r, blob, additional, n) ==
    IF blob.short
    THEN [ratchet |-> r, err |-> TRUE, out |-> Nil, msg |-> NoPublicKey]
    ELSE IF blob.header # r.receivingPub
    THEN LET r1 == [r EXCEPT !.receivingPub = blob.header]
             receivingExchange == exchange(r1.sendingPriv, r1.receivingPub)
         IN  IF receivingExchange.err
             THEN [ratchet |-> r1, err |-> TRUE, out |-> Nil,
                   msg |-> ExchangeError]
             ELSE LET k1 == kdfRootKey(r1.rootKey, receivingExchange.out)
                      kp == GenerateExchange(n)
                      sendingExchange == exchange(kp.priv, r1.receivingPub)
                      k2 == kdfRootKey(k1.rootKey, sendingExchange.out)
                      r2 == [r1 EXCEPT !.rootKey = k2.rootKey,
                                       !.receivingKey = k1.chainKey,
                                       !.sendingPub = kp.pub,
                                       !.sendingPriv = kp.priv,
                                       !.sendingKey = k2.chainKey]
                  IN  DecryptTail(r2, blob, additional)
    ELSE DecryptTail(r, blob, additional)

-----------------------------------------------------------------------------
(* The ratchet pair of TestRatchetEncryption *)

TestSecret == <<"rand", 0>>

\* plaintext := []byte{i, i}; additional := []byte{i}
TestPlaintext(i) == <<i, i>>

TestAdditional(i) == <<i>>

NoDecrypt ==
    [kind |-> "none", side |-> "receiver", err |-> FALSE, out |-> Nil,
     msg |-> "", pt |-> Nil, before |-> EmptyRatchet, after |-> EmptyRatchet]

RatchetIdle ==
    /\ ratchet = [s \in Sides |-> EmptyRatchet]
    /\ wire = [s \in Sides |-> <<>>]
    /\ encCount = 0
    /\ forgeCount = 0
    /\ nextScalar = 0
    /\ last = NoDecrypt
    /\ sentKeys = [s \in Sides |-> <<>>]

RatchetInit ==
    /\ ratchet = [s \in Sides |->
                    IF s = "initiator"
                    THEN DoubleRatchetFromInitiator(TestSecret,
                                                    GenerateExchange(1).pub, 2)
                    ELSE DoubleRatchetFromReceiver(TestSecret,
                                                   GenerateExchange(1).pub,
                                                   GenerateExchange(1).priv)]
    /\ wire = [s \in Sides |-> <<>>]
    /\ encCount = 0
    /\ forgeCount = 0
    /\ nextScalar = 3
    /\ last = NoDecrypt
    /\ sentKeys = [s \in Sides |-> <<>>]

\* sender.Encrypt(plaintext, additional); the blob travels to the other side.
RatchetEncrypt(s) ==
    /\ encCount < MaxMsgs
    /\ LET e == Encrypt(ratchet[s], TestPlaintext(encCount),
                        TestAdditional(encCount), encCount)
       IN  /\ ratchet' = [ratchet EXCEPT ![s] = e.ratchet]
           /\ wire' = [wire EXCEPT ![Other(s)] =
                          Append(@, [blob |-> e.out,
                                     aad |-> TestAdditional(encCount),
                                     pt |-> TestPlaintext(encCount)])]
           /\ sentKeys' = [sentKeys EXCEPT ![s] = Append(@, e.out.body.key)]
    /\ encCount' = encCount + 1
    /\ UNCHANGED <<forgeCount, nextScalar, last>>

\* receiver.Decrypt(ciphertext, additional) on the oldest blob in flight.
RatchetDecrypt(s) ==
    /\ wire[s] # <<>>
    /\ LET m == Head(wire[s])
           d == Decrypt(ratchet[s], m.blob, m.aad, nextScalar)
       IN  /\ ratchet' = [ratchet EXCEPT ![s] = d.ratchet]
           /\ last' = [kind |-> "genuine", side |-> s, err |-> d.err,
                       msg |-> d.msg, out |-> d.out, pt |-> m.pt,
                       before |-> ratchet[s], after |-> d.ratchet]
    /\ wire' = [wire EXCEPT ![s] = Tail(@)]
    /\ nextScalar' = nextScalar + 1
    /\ UNCHANGED <<encCount, forgeCount, sentKeys>>

\* A tag with a byte changed.
FlippedTag == <<"tag", "flipped">>

\* What a relay or a third party can hand to Decrypt instead.
ForgedBlobs(s) ==
    {ShortBlob,
     Blob(LowOrderPoint, Nil),
     Blob(PubOf(<<"attacker", 0>>), Nil),
     Blob(ratchet[s].receivingPub, Nil)}
    \cup (IF wire[s] = <<>> THEN {}
          ELSE {[Head(wire[s]).blob EXCEPT !.body.tag = FlippedTag]})

\* Decrypt on a blob the peer did not produce; the genuine ones stay in flight.
RatchetDecryptForged(s) ==
    /\ forgeCount < MaxForged
    /\ \E b \in ForgedBlobs(s) :
         LET d == Decrypt(ratchet[s], b, TestAdditional(encCount), nextScalar)
         IN  /\ ratchet' = [ratchet EXCEPT ![s] = d.ratchet]
             /\ last' = [kind |-> "forged", side |-> s, err |-> d.err,
                         msg |-> d.msg, out |-> d.out, pt |-> Nil,
                         before |-> ratchet[s], after |-> d.ratchet]
    /\ forgeCount' = forgeCount + 1
    /\ nextScalar' = nextScalar + 1
    /\ UNCHANGED <<wire, encCount, sentKeys>>

\* The genuine blob m with a byte changed in its header (to a point the
\* sender never used, to a low-order point, to the key the receiver saw
\* last), in its nonce, in its body or in its tag, and the genuine blob
\* with other associated data.
Tampered(s, m) ==
    {[kind |-> "header", aad |-> m.aad,
      blob |-> [m.blob EXCEPT !.header = h]] :
        h \in {PubOf(<<"attacker", 0>>), LowOrderPoint,
               ratchet[s].receivingPub} \ {m.blob.header}}
    \cup {[kind |-> "nonce", aad |-> m.aad,
           blob |-> [m.blob EXCEPT !.body.nonce = -1]],
          [kind |-> "body", aad |-> m.aad,
           blob |-> [m.blob EXCEPT !.body.pt = <<-1>>]],
          [kind |-> "tag", aad |-> m.aad,
           blob |-> [m.blob EXCEPT !.body.tag = FlippedTag]],
          [kind |-> "aad", aad |-> TestAdditional(-1), blob |-> m.blob]}

TamperKinds == {"header", "nonce", "body", "tag", "aad"}

\* receiver.Decrypt on the oldest blob in flight after it was changed on
\* the way.
RatchetDecryptTampered(s) ==
    /\ forgeCount < MaxForged
    /\ wire[s] # <<>>
    /\ \E t \in Tampered(s, Head(wire[s])) :
         LET d == Decrypt(ratchet[s], t.blob, t.aad, nextScalar)
         IN  /\ ratchet' = [ratchet EXCEPT ![s] = d.ratchet]
             /\ last' = [kind |-> t.kind, side |-> s, err |-> d.err,
                         msg |-> d.msg, out |-> d.out, pt |-> Head(wire[s]).pt,
                         before |-> ratchet[s], after |-> d.ratchet]
    /\ wire' = [wire EXCEPT ![s] = Tail(@)]
    /\ forgeCount' = forgeCount + 1
    /\ nextScalar' = nextScalar + 1
    /\ UNCHANGED <<encCount, sentKeys>>

-----------------------------------------------------------------------------
(* The relay's store and HTTP handlers (server.go) *)

\* The identities that register with the relay.
Ids == {1, 2}

\* One-time key values a bundle may hold: one more than a bundle's length.
NOnetimes == BundleLen + 1

Procs == 1..NProcs

\* A bundle of keys k, k+1, ... (wrapping), as a client generates them.
FreshBundle(k) ==
    [i \in 1..BundleLen |-> OnetimePub(((k + i - 2) % NOnetimes) + 1)]

\* A bundle holding one key BundleLen times.
RepeatedBundle(k) == [i \in 1..BundleLen |-> OnetimePub(k)]

BundlePubs == {FreshBundle(1), FreshBundle(2), RepeatedBundle(1)}

\* The signed pre-key pair identity i generated when it registered.
PrekeyOf(i) == GenerateExchange(100 + i)

\* INSERT OR REPLACE INTO prekey
savePrekey(table, identity, prekey, signature) ==
    {r \in table : r.identity # identity}
        \cup {[identity |-> identity, prekey |-> prekey,
               signature |-> signature]}

\* SELECT COUNT(*) FROM onetime WHERE identity = $1
countOnetimes(rows, identity) ==
    Cardinality({r \in rows : r.identity = identity})

NextRowid(rows) ==
    IF rows = {} THEN 1
    ELSE 1 + (CHOOSE m \in {r.id : r \in rows} :
                 \A r \in rows : r.id <= m)

RECURSIVE InsertFrom(_, _, _, _)
InsertFrom(rows, identity, bundle, i) ==
    IF i > Len(bundle) THEN rows
    ELSE InsertFrom(rows \cup {[id |-> NextRowid(rows),
                                identity |-> identity,
                                onetime |-> bundle[i]]},
                    identity, bundle, i + 1)

\* The table after saveBundle's transaction commits.
saveBundle(rows, identity, bundle) == InsertFrom(rows, identity, bundle, 1)

\* Without the transaction: what was inserted before the failure stays.
saveBundleTx_NoRollback(rows, identity, bundle, failAt) ==
    IF failAt = 0
    THEN [err |-> FALSE, rows |-> InsertFrom(rows, identity, bundle, 1)]
    ELSE [err |-> TRUE,
          rows |-> InsertFrom(rows, identity,
                              SubSeq(bundle, 1,
                                     IF failAt > Len(bundle) THEN Len(bundle)
                                     ELSE failAt - 1), 1)]

\* saveBundle with the failures it handles: failAt = 0, every statement
\* succeeds; failAt = i, the i-th INSERT fails and the transaction is
\* rolled back; failAt = Len(bundle) + 1, the commit fails.
saveBundleTx(rows, identity, bundle, failAt) ==
    IF failAt = 0
    THEN [err |-> FALSE, rows |-> saveBundle(rows, identity, bundle)]
    ELSE [err |-> TRUE, rows |-> rows]

getPrekey(table, pub) ==
    LET found == {r \in table : r.identity = pub}
    IN  IF found = {} THEN [err |-> TRUE, prekey |-> Nil, sig |-> Nil]
        ELSE LET r == CHOOSE r \in found : TRUE
             IN  [err |-> FALSE, prekey |-> r.prekey, sig |-> r.signature]

\* The rows SELECT ... WHERE identity = $1 LIMIT 1 may return.
SelectOnetime(rows, pub) == {r \in rows : r.identity = pub}

\* A delete that removes nothing.
DeleteOnetime_Kept(rows, onetime) == rows

\* DELETE FROM onetime WHERE onetime = $1
DeleteOnetime(rows, onetime) == {r \in rows : r.onetime # onetime}

IdleHandler ==
    [pc |-> "idle", identity |-> Nil, onetime |-> Nil, stale |-> FALSE,
     overlap |-> {}, status |-> 0]

NoReply == [op |-> "none", status |-> 0]

Active(p) == handler[p].pc \in {"prekey", "selected", "deleted"}

\* Some transaction holds the database's write lock.
WriteLocked == \E q \in Procs : handler[q].pc = "deleted"

\* A committed write invalidates the snapshot of every open read.
Invalidate(h) ==
    [q \in Procs |->
        IF h[q].pc = "selected" THEN [h[q] EXCEPT !.stale = TRUE] ELSE h[q]]

RelayIdle ==
    /\ prekeyTable = {}
    /\ onetimeTable = {}
    /\ uploads = 0
    /\ firstUpload = Nil
    /\ reply = NoReply
    /\ since = [i \in Ids |-> <<>>]
    /\ handedKeys = [i \in Ids |-> {}]
    /\ handedTwice = FALSE
    /\ requests = 0
    /\ handler = [p \in Procs |-> IdleHandler]

\* The relay once some of the identities, or none, have registered a signed
\* pre-key.
SomeRegisteredInit ==
    /\ \E registered \in SUBSET Ids :
        prekeyTable =
           {[identity |-> IdentityPub(i), prekey |-> PrekeyOf(i).pub,
             signature |-> Sign(IdentityPriv(i), PrekeyOf(i).pub)] :
                i \in registered}
    /\ onetimeTable = {}
    /\ uploads = 0
    /\ firstUpload = Nil
    /\ reply = NoReply
    /\ since = [i \in Ids |-> <<>>]
    /\ handedKeys = [i \in Ids |-> {}]
    /\ handedTwice = FALSE
    /\ requests = 0
    /\ handler = [p \in Procs |-> IdleHandler]

\* The relay once every identity has registered a signed pre-key.
RegisteredInit ==
    /\ prekeyTable =
           {[identity |-> IdentityPub(i), prekey |-> PrekeyOf(i).pub,
             signature |-> Sign(IdentityPriv(i), PrekeyOf(i).pub)] :
                i \in Ids}
    /\ onetimeTable = {}
    /\ uploads = 0
    /\ firstUpload = Nil
    /\ reply = NoReply
    /\ since = [i \in Ids |-> <<>>]
    /\ handedKeys = [i \in Ids |-> {}]
    /\ handedTwice = FALSE
    /\ requests = 0
    /\ handler = [p \in Procs |-> IdleHandler]

\* A session answer enters the ghost records.
Handed(id, onetime) ==
    /\ handedKeys' = [handedKeys EXCEPT ![id] = @ \cup {onetime}]
    /\ handedTwice' = (handedTwice \/ onetime \in handedKeys[id])

\* len(x) == IdentityPubSize
IsIdentity(x) == Len(x) = 2 /\ x[1] = "id"

\* A recipient field of the wrong length.
BadTo == <<"short">>

\* ExchangePubFromBytes: only the length is checked.
ExchangePubFromBytes(x) ==
    IF Len(x) = 2 /\ x[1] = "pub"
    THEN [err |-> FALSE, out |-> x]
    ELSE [err |-> TRUE, out |-> Nil]

NoRequest == [op |-> "none"]

\* The {id} of a request path: URL-safe base64 of the identity's bytes.
Base64Of(bytes) == <<"base64", bytes>>

\* A path segment that is not base64.
NotBase64 == <<"text", Nil>>

\* crypto.IdentityPubFromBase64: decode, then check the length.
IdentityPubFromBase64(data) ==
    IF data[1] # "base64" \/ ~IsIdentity(data[2])
    THEN [err |-> TRUE, out |-> Nil]
    ELSE [err |-> FALSE, out |-> data[2]]

\* POST /prekey/{id}; saved: whether the INSERT OR REPLACE succeeds.
prekeyHandler(idText, prekeyBytes, sig, saved) ==
    LET id == IdentityPubFromBase64(idText)
        prekey == ExchangePubFromBytes(prekeyBytes)
    IN  /\ IF id.err \/ prekey.err
           THEN /\ reply' = [op |-> "prekey", status |-> 400]
                /\ UNCHANGED prekeyTable
           ELSE IF ~Verify(id.out, prekey.out, sig)
           THEN /\ reply' = [op |-> "prekey", status |-> 400]
                /\ UNCHANGED prekeyTable
           ELSE IF ~saved
           THEN /\ reply' = [op |-> "prekey", status |-> 500]
                /\ UNCHANGED prekeyTable
           ELSE /\ prekeyTable' =
                       savePrekey(prekeyTable, id.out, prekeyBytes, sig)
                /\ reply' = [op |-> "prekey", status |-> 202]
        /\ UNCHANGED <<onetimeTable, uploads, firstUpload, since, handedKeys,
                       handedTwice, requests, handler>>

\* The pre-key uploads a client or anyone else may send: for an identity,
\* for a path that does not decode or decodes to the wrong length; a key
\* or bytes of the wrong length; a signature by either identity over the
\* bytes sent or over another key.
PrekeyUploads ==
    [id : {Base64Of(IdentityPub(i)) : i \in Ids}
            \cup {Base64Of(BadTo), NotBase64},
     prekey : {PrekeyOf(i).pub : i \in Ids} \cup {BadTo},
     signer : Ids,
     over : {"sent", "other"}]

UploadSig(u) ==
    Sign(IdentityPriv(u.signer),
         IF u.over = "sent" THEN u.prekey ELSE GenerateExchange(1).pub)

\* The relay serves a pre-key upload; the request is kept as received, with
\* the table as it was.
PrekeyUpload(u, saved) ==
    /\ prekeyHandler(u.id, u.prekey, UploadSig(u), saved)
    /\ request' = [op |-> "prekey", id |-> u.id, prekey |-> u.prekey,
                   sig |-> UploadSig(u), saved |-> saved,
                   before |-> prekeyTable]

\* POST /onetime/{id}; failAt: the statement of saveBundle that fails, if any.
onetimeHandler(id, bundle, signer, failAt) ==
    LET sig == Sign(IdentityPriv(signer), bundle)
        tx == saveBundleTx(onetimeTable, IdentityPub(id), bundle, failAt)
    IN  /\ uploads < MaxUploads
        /\ IF ~Verify(IdentityPub(id), bundle, sig)
           THEN /\ reply' = [op |-> "onetime", status |-> 400]
                /\ UNCHANGED <<onetimeTable, uploads, firstUpload, since,
                               handler>>
           ELSE IF WriteLocked
           THEN /\ reply' = [op |-> "onetime", status |-> 500]
                /\ UNCHANGED <<onetimeTable, uploads, firstUpload, since,
                               handler>>
           ELSE IF tx.err
           THEN /\ reply' = [op |-> "onetime", status |-> 500]
                /\ onetimeTable' = tx.rows
                /\ UNCHANGED <<uploads, firstUpload, since, handler>>
           ELSE /\ onetimeTable' = tx.rows
                /\ uploads' = uploads + 1
                /\ firstUpload' =
                       IF uploads = 0
                       THEN [identity |-> id, bundle |-> bundle,
                             prekey |-> ~getPrekey(prekeyTable,
                                                   IdentityPub(id)).err]
                       ELSE firstUpload
                /\ since' = [since EXCEPT ![id] = <<>>]
                /\ handler' = Invalidate(handler)
                /\ reply' = [op |-> "onetime", status |-> 202]
        /\ UNCHANGED <<prekeyTable, handedKeys, handedTwice, requests>>

\* The relay serves a bundle upload; the request is kept as received,
\* with the table as it was.
BundleUpload(id, bundle, signer, failAt) ==
    /\ onetimeHandler(id, bundle, signer, failAt)
    /\ request' = [op |-> "onetime", id |-> id, bundle |-> bundle,
                   signer |-> signer, failAt |-> failAt,
                   before |-> onetimeTable]

\* POST /session/{id}, run from start to finish with nothing in between
\* and every store operation succeeding.
sessionHandler(id) ==
    /\ requests < MaxRequests
    /\ requests' = requests + 1
    /\ LET pk == getPrekey(prekeyTable, IdentityPub(id))
           found == SelectOnetime(onetimeTable, IdentityPub(id))
       IN  IF pk.err \/ found = {}
           THEN /\ reply' = [op |-> "session", status |-> 500]
                /\ since' = [since EXCEPT ![id] = Append(@, Nil)]
                /\ UNCHANGED <<onetimeTable, handedKeys, handedTwice>>
           ELSE \E row \in found :
                /\ onetimeTable' = DeleteOnetime(onetimeTable, row.onetime)
                /\ reply' = [op |-> "session", status |-> 202]
                /\ since' = [since EXCEPT ![id] = Append(@, row.onetime)]
                /\ Handed(id, row.onetime)
    /\ UNCHANGED <<prekeyTable, uploads, firstUpload, handler>>

\* The handlers that were running while p was.
Overlap(h, p) ==
    LET running == {q \in Procs : Active(q)}
    IN  [q \in Procs |->
            IF q = p THEN [h[p] EXCEPT !.overlap = running]
            ELSE IF q \in running
                 THEN [h[q] EXCEPT !.overlap = @ \cup {p}]
                 ELSE h[q]]

Finish(h, p, status) == [h EXCEPT ![p].pc = "done", ![p].status = status]

\* sessionHandler up to getPrekey, in one of several concurrent handlers.
SessionPrekey(p, id) ==
    /\ handler[p].pc = "idle"
    /\ LET pk == getPrekey(prekeyTable, IdentityPub(id))
           h == [handler EXCEPT ![p].identity = id]
       IN  IF pk.err
           THEN handler' = Finish(h, p, 500)
           ELSE handler' = Overlap([h EXCEPT ![p].pc = "prekey"], p)
    /\ UNCHANGED <<storeVars, uploads, firstUpload, reply, since, handedKeys,
                   handedTwice, requests>>

\* getOnetime: Begin and the SELECT.
GetOnetimeSelect(p) ==
    /\ handler[p].pc = "prekey"
    /\ LET found == SelectOnetime(onetimeTable,
                                  IdentityPub(handler[p].identity))
       IN  IF found = {}
           THEN handler' = Finish(handler, p, 500)
           ELSE \E row \in found :
                handler' = [handler EXCEPT ![p].pc = "selected",
                                           ![p].onetime = row.onetime,
                                           ![p].stale = FALSE]
    /\ UNCHANGED <<storeVars, uploads, firstUpload, reply, since, handedKeys,
                   handedTwice, requests>>

\* getOnetime: the DELETE, which needs the write lock and a current
\* snapshot; otherwise the database is busy and the handler rolls back.
GetOnetimeDelete(p) ==
    /\ handler[p].pc = "selected"
    /\ IF handler[p].stale \/ WriteLocked
       THEN handler' = Finish(handler, p, 500)
       ELSE handler' = [handler EXCEPT ![p].pc = "deleted"]
    /\ UNCHANGED <<storeVars, uploads, firstUpload, reply, since, handedKeys,
                   handedTwice, requests>>

\* getOnetime: tx.Commit(), whose result is dropped, and the return.
GetOnetimeCommit(p) ==
    /\ handler[p].pc = "deleted"
    /\ \E committed \in BOOLEAN :
        IF committed
        THEN /\ onetimeTable' = DeleteOnetime(onetimeTable, handler[p].onetime)
             /\ handler' = Finish(Invalidate(handler), p, 202)
        ELSE /\ UNCHANGED onetimeTable
             /\ handler' = Finish(handler, p, 202)
    /\ Handed(handler[p].identity, handler[p].onetime)
    /\ UNCHANGED <<prekeyTable, uploads, firstUpload, reply, since, requests>>

-----------------------------------------------------------------------------
(* Frames (api.go) *)

\* A payload variant; the fields a variant lacks are Nil.
Variant(type, prekey, sig, onetime, ephemeral, data) ==
    [type |-> type, Prekey |-> prekey, Sig |-> sig, OneTime |-> onetime,
     Ephemeral |-> ephemeral, Data |-> data]

MessagePayload(data) == Variant("message", Nil, Nil, Nil, Nil, data)

QueryExchangePayload == Variant("query_exchange", Nil, Nil, Nil, Nil, Nil)

StartExchangePayload(prekey, sig, onetime) ==
    Variant("start_exchange", prekey, sig, onetime, Nil, Nil)

EndExchangePayload(prekey, onetime, ephemeral) ==
    Variant("end_exchange", prekey, Nil, onetime, ephemeral, Nil)

\* A payload whose type tag is none of the four.
UnknownPayload == Variant("unknown", Nil, Nil, Nil, Nil, Nil)

Message(from, to, payload) == [From |-> from, To |-> to, Payload |-> payload]

\* Payload.UnmarshalJSON: the type tag picks the variant, or decoding fails.
UnmarshalJSON(payload) ==
    IF payload.type \in {"message", "query_exchange", "start_exchange",
                         "end_exchange"}
    THEN [err |-> FALSE, variant |-> payload]
    ELSE [err |-> TRUE, variant |-> Nil]

\* A frame written without a "payload" member.  Read by the relay it is
\* a Message whose Payload.Variant is nil; written on by the relay it is
\* "payload": null, on which the reading client's UnmarshalJSON is called.
NoPayload == Variant("", Nil, Nil, Nil, Nil, Nil)

\* conn.ReadJSON(&message) in listen: Payload.UnmarshalJSON runs only when
\* the frame has a "payload" member.
ReadJSON(frame) ==
    IF frame.Payload = NoPayload
    THEN [err |-> FALSE, message |-> frame]
    ELSE IF UnmarshalJSON(frame.Payload).err
    THEN [err |-> TRUE, message |-> Nil]
    ELSE [err |-> FALSE, message |-> frame]

\* SharedKey.Encrypt: AES rejects a key that is not 16, 24 or 32 bytes.
SharedKeyEncrypt(key, nonce, plaintext, additional) ==
    IF key = Nil THEN [err |-> TRUE, out |-> Nil]
    ELSE [err |-> FALSE, out |-> AeadEncrypt(key, nonce, plaintext, additional)]

SharedKeyDecrypt(key, ciphertext, additional) ==
    IF key = Nil THEN [err |-> TRUE, out |-> Nil]
    ELSE AeadDecrypt(key, ciphertext, additional)

-----------------------------------------------------------------------------
(* The generate command and the client's identity table *)

CommandIdle ==
    /\ identityTable = {}
    /\ generated = 0

\* crypto.GenerateIdentity: the n-th pair is a new one.
GenerateIdentity(n) == [pub |-> IdentityPub(n), priv |-> IdentityPriv(n)]

\* SELECT public FROM identity LIMIT 1; nil when there is no row.
GetIdentity(table) ==
    IF table = {} THEN Nil ELSE (CHOOSE r \in table : TRUE).public

\* A table keyed by the public key: the new pair is one more row.
SaveIdentity_KeyedByPublic(table, pub, priv) ==
    {r \in table : r.public # pub}
        \cup {[id |-> TRUE, public |-> pub, private |-> priv]}

\* INSERT OR REPLACE INTO identity (id, public, private) VALUES (true, ..):
\* id is the primary key, so the row with id = true is replaced.
SaveIdentity(table, pub, priv) ==
    {r \in table : r.id # TRUE}
        \cup {[id |-> TRUE, public |-> pub, private |-> priv]}

\* GenerateCommand.Run; saved: whether SaveIdentity succeeds.  The command
\* is kept as it was given, with the table as it was.
GenerateCommandRun(force, saved) ==
    LET existingPub == GetIdentity(identityTable)
        pair == GenerateIdentity(generated + 1)
    IN  /\ IF existingPub # Nil /\ ~force
           THEN UNCHANGED <<identityTable, generated>>
           ELSE /\ generated < MaxGenerate
                /\ generated' = generated + 1
                /\ identityTable' =
                       IF saved
                       THEN SaveIdentity(identityTable, pair.pub, pair.priv)
                       ELSE identityTable
        /\ request' = [op |-> "generate", force |-> force, saved |-> saved,
                       before |-> identityTable, pair |-> pair]

-----------------------------------------------------------------------------
(* The relay's router (router.go) and the chat client (StartChat) *)

\* The two clients that chat with each other.
Clients == Ids

Peer(c) == 3 - c

\* A stream driven by hand: it writes whatever frames it likes.
Rogue == 3

\* An identity that never connects.
Absent == 4

\* A second connection opened under client 1's identity: rtcHandler takes
\* the identity from the URL, so another process of the same user, or
\* anyone else, can open it.
Second == 5

Streams == Clients \cup {Rogue, Second}

\* The identity in the URL a stream was opened under.
StreamIdentity(id) == IF id = Second THEN IdentityPub(1) ELSE IdentityPub(id)

\* router.channels[string(id)] = ch
setChannel(table, id, ch) ==
    [x \in DOMAIN table \cup {id} |-> IF x = id THEN ch ELSE table[x]]

\* delete(router.channels, string(id))
removeChannel(table, id) == [x \in DOMAIN table \ {id} |-> table[x]]

\* The j-th one-time pair of client c's first bundle.
OnetimeOf(c, j) == GenerateExchange(10 * c + j)

\* The ephemeral pair client c generates in StartChat.
EphemeralOf(c) == GenerateExchange(200 + c)

ClientBundle(c) == [j \in 1..BundleLen |-> OnetimeOf(c, j).pub]

\* clientDatabase.GetPrekey
StoreGetPrekey(prekeys, prekey) ==
    LET found == {r \in prekeys : r.public = prekey}
    IN  IF found = {} THEN [err |-> TRUE, priv |-> Nil]
        ELSE [err |-> FALSE, priv |-> (CHOOSE r \in found : TRUE).private]

\* A lookup that takes whatever one-time row comes first.
BurnOnetime_Any(onetimes, pub) ==
    IF onetimes = {} THEN [err |-> TRUE, priv |-> Nil, onetimes |-> onetimes]
    ELSE LET r == CHOOSE r \in onetimes :
                    \A q \in onetimes : r.public[2][2] <= q.public[2][2]
         IN  [err |-> FALSE, priv |-> r.private,
              onetimes |-> onetimes \ {r}]

\* The select without the delete.
BurnOnetime_NoDelete(onetimes, pub) ==
    LET found == {r \in onetimes : r.public = pub}
    IN  IF found = {} THEN [err |-> TRUE, priv |-> Nil, onetimes |-> onetimes]
        ELSE [err |-> FALSE, priv |-> (CHOOSE r \in found : TRUE).private,
              onetimes |-> onetimes]

\* clientDatabase.BurnOnetime: the private half, and the store without it.
BurnOnetime(onetimes, pub) ==
    LET found == {r \in onetimes : r.public = pub}
    IN  IF found = {} THEN [err |-> TRUE, priv |-> Nil, onetimes |-> onetimes]
        ELSE [err |-> FALSE, priv |-> (CHOOSE r \in found : TRUE).private,
              onetimes |-> {r \in onetimes : r.public # pub}]

\* A client that has registered: its pre-key and first bundle are saved.
RegisteredClient(c) ==
    [pc |-> "init", them |-> IdentityPub(Peer(c)), key |-> Nil,
     additional |-> Nil, role |-> "none", error |-> "", sent |-> 0,
     shown |-> <<>>, undecrypted |-> 0, first |-> Nil, log |-> <<>>,
     prekeys |-> {[public |-> PrekeyOf(c).pub, private |-> PrekeyOf(c).priv]},
     onetimes |-> {[public |-> OnetimeOf(c, j).pub,
                    private |-> OnetimeOf(c, j).priv] : j \in 1..BundleLen}]

IdleReader == [pc |-> "off", held |-> Nil]

ChatIdle ==
    /\ channels = <<>>
    /\ reader = [i \in Streams |-> IdleReader]
    /\ up = [i \in Streams |-> <<>>]
    /\ down = [i \in Streams |-> <<>>]
    /\ client = [c \in Clients |-> RegisteredClient(c)]
    /\ rawCount = 0

\* Both clients have run register; nobody is connected.
ChatInit ==
    /\ ChatIdle
    /\ prekeyTable =
           {[identity |-> IdentityPub(c), prekey |-> PrekeyOf(c).pub,
             signature |-> Sign(IdentityPriv(c), PrekeyOf(c).pub)] :
                c \in Clients}
    /\ onetimeTable =
           saveBundle(saveBundle({}, IdentityPub(1), ClientBundle(1)),
                      IdentityPub(2), ClientBundle(2))
    /\ uploads = 0
    /\ firstUpload = Nil
    /\ reply = NoReply
    /\ since = [i \in Ids |-> <<>>]
    /\ handedKeys = [i \in Ids |-> {}]
    /\ handedTwice = FALSE
    /\ requests = 0
    /\ handler = [p \in Procs |-> IdleHandler]

\* A frame on a recipient's channel, with who pushed it, on which path,
\* and the From its writer had put in it.
Pushed(message, by, path, claimed) ==
    [message |-> message, pushedBy |-> by, path |-> path,
     claimed |-> claimed]

\* The forwarding path with the frame left as the client wrote it.
Forwarded_AsWritten(message, id) == message

\* message.From = id
Forwarded(message, id) == [message EXCEPT !.From = StreamIdentity(id)]

\* StartChat up to the first read: dial the relay's /rtc endpoint under
\* the client's identity and write the query_exchange frame.
StartChatDial(c) ==
    /\ client[c].pc = "init"
    /\ client' = [client EXCEPT ![c].pc = "wait"]
    /\ reader' = [reader EXCEPT ![c].pc = "accepted"]
    /\ up' = [up EXCEPT ![c] =
                 Append(@, Message(IdentityPub(c), client[c].them,
                                   QueryExchangePayload))]
    /\ UNCHANGED <<channels, down, rawCount, relayVars>>

\* listen: make the channel, setChannel, start forwardMessages.
RouterListen(id) ==
    /\ reader[id].pc = "accepted"
    /\ reader' = [reader EXCEPT ![id].pc = "run"]
    /\ channels' = setChannel(channels, StreamIdentity(id), id)
    /\ UNCHANGED <<up, down, client, rawCount, relayVars>>

\* The answer sent on toChan, the channel of the identity asked about.
RouterQuery_OnRecipient(id, idTo, present) ==
    LET pk == getPrekey(prekeyTable, idTo)
        found == SelectOnetime(onetimeTable, idTo)
    IN  IF ~present \/ pk.err \/ found = {}
        THEN UNCHANGED <<reader, down, storeVars, handedKeys, handedTwice>>
        ELSE \E row \in found :
             /\ onetimeTable' = DeleteOnetime(onetimeTable, row.onetime)
             /\ down' = [down EXCEPT ![channels[idTo]] =
                   Append(@, Pushed(Message(Nil, StreamIdentity(id),
                                 StartExchangePayload(pk.prekey, pk.sig,
                                                      row.onetime)),
                                    id, "query", Nil))]
             /\ Handed(idTo[2], row.onetime)
             /\ UNCHANGED <<prekeyTable, reader>>

\* The query case with the test of present left out.
RouterQuery_Unchecked(id, idTo, present) ==
    LET pk == getPrekey(prekeyTable, idTo)
        found == SelectOnetime(onetimeTable, idTo)
    IN  IF pk.err \/ found = {}
        THEN UNCHANGED <<reader, down, storeVars, handedKeys, handedTwice>>
        ELSE \E row \in found :
             /\ onetimeTable' = DeleteOnetime(onetimeTable, row.onetime)
             /\ down' = [down EXCEPT ![id] =
                   Append(@, Pushed(Message(Nil, StreamIdentity(id),
                                 StartExchangePayload(pk.prekey, pk.sig,
                                                      row.onetime)),
                                    id, "query", Nil))]
             /\ Handed(idTo[2], row.onetime)
             /\ UNCHANGED <<prekeyTable, reader>>

\* listen, case *QueryExchangePayload
RouterQuery(id, idTo, present) ==
    LET pk == getPrekey(prekeyTable, idTo)
        found == SelectOnetime(onetimeTable, idTo)
    IN  IF ~present \/ pk.err \/ found = {}
        THEN UNCHANGED <<reader, down, storeVars, handedKeys, handedTwice>>
        ELSE \E row \in found :
             /\ onetimeTable' = DeleteOnetime(onetimeTable, row.onetime)
             /\ down' = [down EXCEPT ![id] =
                   Append(@, Pushed(Message(Nil, StreamIdentity(id),
                                 StartExchangePayload(pk.prekey, pk.sig,
                                                      row.onetime)),
                                    id, "query", Nil))]
             /\ Handed(idTo[2], row.onetime)
             /\ UNCHANGED <<prekeyTable, reader>>

\* The forwarding path with the frame put ahead of those already waiting.
RouterForward_Front(id, message, idTo, present) ==
    /\ IF present
       THEN /\ down' = [down EXCEPT ![channels[idTo]] =
                   <<Pushed(Forwarded(message, id), id, "forward",
                            message.From)>> \o @]
            /\ UNCHANGED reader
       ELSE /\ reader' = [reader EXCEPT ![id] =
                   [pc |-> "blocked", held |-> Forwarded(message, id)]]
            /\ UNCHANGED down
    /\ UNCHANGED <<storeVars, handedKeys, handedTwice>>

\* listen, default case: the send on toChan, which is nil when the
\* recipient has no channel, and a send on a nil channel never returns.
RouterForward(id, message, idTo, present) ==
    /\ IF present
       THEN /\ down' = [down EXCEPT ![channels[idTo]] =
                   Append(@, Pushed(Forwarded(message, id), id, "forward",
                                    message.From))]
            /\ UNCHANGED reader
       ELSE /\ reader' = [reader EXCEPT ![id] =
                   [pc |-> "blocked", held |-> Forwarded(message, id)]]
            /\ UNCHANGED down
    /\ UNCHANGED <<storeVars, handedKeys, handedTwice>>

\* The end of a stream: its client has closed the connection, and every
\* read after the frames written before it fails.
Eof == Message(Nil, Nil, Variant("eof", Nil, Nil, Nil, Nil, Nil))

Closed(id) == up[id] # <<>> /\ up[id][Len(up[id])] = Eof

\* listen on a read that fails: the error is logged and the loop goes on
\* to the next read with the entry still in the table.  The loop has no
\* return; the one way out is the websocket library, whose later versions
\* panic on repeated reads of a failed connection, and then the deferred
\* removeChannel runs.
RouterReadError(id) ==
    /\ reader[id].pc \in {"run", "erring"}
    /\ up[id] # <<>>
    /\ Head(up[id]) = Eof
    /\ \E panics \in BOOLEAN :
         IF panics /\ reader[id].pc = "erring"
         THEN /\ reader' = [reader EXCEPT ![id].pc = "ended"]
              /\ channels' = removeChannel(channels, StreamIdentity(id))
         ELSE /\ reader' = [reader EXCEPT ![id].pc = "erring"]
              /\ UNCHANGED channels
    /\ UNCHANGED <<up, down, client, rawCount, relayVars>>

\* One turn of listen's loop on the next frame of the stream.
RouterRead(id) ==
    /\ reader[id].pc = "run"
    /\ up[id] # <<>>
    /\ Head(up[id]) # Eof
    /\ up' = [up EXCEPT ![id] = Tail(@)]
    /\ LET message == Head(up[id])
           idTo == message.To
           present == idTo \in DOMAIN channels
       IN  IF ReadJSON(message).err \/ ~IsIdentity(idTo)
           THEN UNCHANGED <<reader, down, storeVars, handedKeys, handedTwice>>
           ELSE IF message.Payload.type = "query_exchange"
           THEN RouterQuery(id, idTo, present)
           ELSE RouterForward(id, message, idTo, present)
    /\ UNCHANGED <<channels, client, rawCount, uploads, firstUpload, reply,
                   since, requests, handler>>

Failed(c, error) == [client EXCEPT ![c].pc = "failed", ![c].error = error]

\* StartChat, case *server.StartExchangePayload
StartExchangeBranch(c, v) ==
    LET me == IdentityPub(c)
        them == client[c].them
        prekey == ExchangePubFromBytes(v.Prekey)
        onetime == ExchangePubFromBytes(v.OneTime)
        ephemeral == EphemeralOf(c)
        key == ForwardExchange(IdentityPriv(c), ephemeral.priv, them,
                               v.Prekey, v.OneTime)
    IN  IF prekey.err
        THEN client' = Failed(c, "prekey") /\ UNCHANGED up
        ELSE IF ~Verify(them, v.Prekey, v.Sig)
        THEN /\ client' = Failed(c, "couldn't verify prekey signature")
             /\ UNCHANGED up
        ELSE IF onetime.err
        THEN client' = Failed(c, "onetime") /\ UNCHANGED up
        ELSE IF key.err
        THEN client' = Failed(c, "exchange") /\ UNCHANGED up
        ELSE /\ client' = [client EXCEPT ![c].pc = "chat",
                                         ![c].role = "forward",
                                         ![c].key = key.out,
                                         ![c].additional = concat(me, them)]
             /\ up' = [up EXCEPT ![c] =
                   Append(@, Message(me, them,
                                 EndExchangePayload(prekey.out, onetime.out,
                                                    ephemeral.pub)))]

\* The responder putting itself first in the associated data.
EndExchangeBranch_MeFirst(c, v) ==
    LET me == IdentityPub(c)
        them == client[c].them
        ephemeral == ExchangePubFromBytes(v.Ephemeral)
        prekey == ExchangePubFromBytes(v.Prekey)
        onetime == ExchangePubFromBytes(v.OneTime)
        prekeyPriv == StoreGetPrekey(client[c].prekeys, v.Prekey)
        burned == BurnOnetime(client[c].onetimes, v.OneTime)
        key == BackwardExchange(them, v.Ephemeral, IdentityPriv(c),
                                prekeyPriv.priv, burned.priv)
    IN  /\ UNCHANGED up
        /\ IF ephemeral.err \/ prekey.err \/ onetime.err
           THEN client' = Failed(c, "length")
           ELSE IF prekeyPriv.err
           THEN client' = Failed(c, "prekey")
           ELSE IF burned.err
           THEN client' = Failed(c, "onetime")
           ELSE IF key.err
           THEN client' = [Failed(c, "exchange") EXCEPT
                               ![c].onetimes = burned.onetimes]
           ELSE client' = [client EXCEPT ![c].pc = "chat",
                                         ![c].role = "backward",
                                         ![c].key = key.out,
                                         ![c].additional = concat(me, them),
                                         ![c].onetimes = burned.onetimes]

\* StartChat, case *server.EndExchangePayload
EndExchangeBranch(c, v) ==
    LET me == IdentityPub(c)
        them == client[c].them
        ephemeral == ExchangePubFromBytes(v.Ephemeral)
        prekey == ExchangePubFromBytes(v.Prekey)
        onetime == ExchangePubFromBytes(v.OneTime)
        prekeyPriv == StoreGetPrekey(client[c].prekeys, v.Prekey)
        burned == BurnOnetime(client[c].onetimes, v.OneTime)
        key == BackwardExchange(them, v.Ephemeral, IdentityPriv(c),
                                prekeyPriv.priv, burned.priv)
    IN  /\ UNCHANGED up
        /\ IF ephemeral.err \/ prekey.err \/ onetime.err
           THEN client' = Failed(c, "length")
           ELSE IF prekeyPriv.err
           THEN client' = Failed(c, "prekey")
           ELSE IF burned.err
           THEN client' = Failed(c, "onetime")
           ELSE IF key.err
           THEN client' = [Failed(c, "exchange") EXCEPT
                               ![c].onetimes = burned.onetimes]
           ELSE client' = [client EXCEPT ![c].pc = "chat",
                                         ![c].role = "backward",
                                         ![c].key = key.out,
                                         ![c].additional = concat(them, me),
                                         ![c].onetimes = burned.onetimes]

\* StartChat from the first frame it reads to its return.
StartChatFirst(c) ==
    /\ client[c].pc = "wait"
    /\ down[c] # <<>>
    /\ down' = [down EXCEPT ![c] = Tail(@)]
    /\ LET v == Head(down[c]).message.Payload
       IN  IF UnmarshalJSON(v).err
           THEN UNCHANGED <<client, up>>
           ELSE IF v.type = "start_exchange" THEN StartExchangeBranch(c, v)
           ELSE IF v.type = "end_exchange" THEN EndExchangeBranch(c, v)
           ELSE /\ client' = [client EXCEPT ![c].pc = "chat"]
                /\ UNCHANGED up
    /\ UNCHANGED <<channels, reader, rawCount, relayVars>>

\* The sending goroutine on one line of text.
ChatSend(c) ==
    /\ client[c].pc = "chat"
    /\ client[c].sent < MaxChat
    /\ LET n == client[c].sent + 1
           ciphertext == SharedKeyEncrypt(client[c].key, <<c, n>>,
                                          <<"text", c, n>>,
                                          client[c].additional)
       IN  /\ client' = [client EXCEPT ![c].sent = n]
           /\ IF ciphertext.err
              THEN UNCHANGED up
              ELSE up' = [up EXCEPT ![c] =
                     Append(@, Message(IdentityPub(c), client[c].them,
                                       MessagePayload(ciphertext.out)))]
    /\ UNCHANGED <<channels, reader, down, rawCount, relayVars>>

\* The receiving goroutine on one frame.
ChatReceive(c) ==
    /\ client[c].pc = "chat"
    /\ down[c] # <<>>
    /\ down' = [down EXCEPT ![c] = Tail(@)]
    /\ LET msg == Head(down[c]).message
           plaintext == SharedKeyDecrypt(client[c].key, msg.Payload.Data,
                                         client[c].additional)
       IN  IF msg.From # client[c].them \/ msg.Payload.type # "message"
           THEN UNCHANGED client
           ELSE IF plaintext.err
           THEN client' = [client EXCEPT ![c].undecrypted = @ + 1]
           ELSE client' = [client EXCEPT ![c].shown = Append(@, plaintext.out)]
    /\ UNCHANGED <<channels, reader, up, rawCount, relayVars>>

\* The payloads the hand-driven stream writes to client c: junk, a query,
\* the peer's signed pre-key with a one-time key of the writer's, and an
\* end_exchange naming keys of c.
RawPayloads(c) ==
    {MessagePayload(<<"junk">>),
     QueryExchangePayload,
     StartExchangePayload(PrekeyOf(Peer(c)).pub,
                          Sign(IdentityPriv(Peer(c)), PrekeyOf(Peer(c)).pub),
                          EphemeralOf(Rogue).pub),
     EndExchangePayload(PrekeyOf(c).pub, OnetimeOf(c, 1).pub,
                        EphemeralOf(Rogue).pub)}

\* Its frames: to client 1 (claiming to come from 1's peer; among them one
\* with an unknown type tag and one with no payload), to client 2,
\* to an identity that is not connected, and to a recipient of the wrong
\* length.
RawFrames ==
    {Message(IdentityPub(Peer(1)), IdentityPub(1), payload) :
        payload \in RawPayloads(1) \cup {UnknownPayload, NoPayload}}
    \cup {Message(IdentityPub(Peer(2)), IdentityPub(2),
                  MessagePayload(<<"junk">>)),
          Message(Nil, IdentityPub(Absent), MessagePayload(<<"junk">>)),
          Message(Nil, IdentityPub(Absent), QueryExchangePayload),
          Message(Nil, BadTo, MessagePayload(<<"junk">>))}

\* A websocket client dials /rtc under an identity of its own.
RawDial ==
    /\ reader[Rogue].pc = "off"
    /\ reader' = [reader EXCEPT ![Rogue].pc = "accepted"]
    /\ UNCHANGED <<channels, up, down, client, rawCount, relayVars>>

\* It writes a frame of its choosing.
RawSend(message) ==
    /\ reader[Rogue].pc # "off"
    /\ ~Closed(Rogue)
    /\ rawCount < MaxRaw
    /\ rawCount' = rawCount + 1
    /\ up' = [up EXCEPT ![Rogue] = Append(@, message)]
    /\ UNCHANGED <<channels, reader, down, client, relayVars>>

\* What a ClientAPI can give StartChat as the first frame it reads, for
\* client c chatting with p: the relay's start_exchange; one signed by
\* another identity; one with p's signature over another key; one with a
\* pre-key of the wrong length; end_exchange frames naming c's first and
\* second one-time keys, a key c does not hold, and a low-order ephemeral
\* key; and a message frame.
StubFrames(c) ==
    LET p == Peer(c)
        them == IdentityPub(p)
        me == IdentityPub(c)
    IN  {Message(Nil, me,
                 StartExchangePayload(PrekeyOf(p).pub,
                                      Sign(IdentityPriv(p), PrekeyOf(p).pub),
                                      OnetimeOf(p, 1).pub)),
         Message(Nil, me,
                 StartExchangePayload(PrekeyOf(p).pub,
                                      Sign(IdentityPriv(Rogue), PrekeyOf(p).pub),
                                      OnetimeOf(p, 1).pub)),
         Message(Nil, me,
                 StartExchangePayload(PrekeyOf(p).pub,
                                      Sign(IdentityPriv(p), OnetimeOf(p, 1).pub),
                                      OnetimeOf(p, 1).pub)),
         Message(Nil, me,
                 StartExchangePayload(BadTo, Nil, OnetimeOf(p, 1).pub)),
         Message(them, me,
                 EndExchangePayload(PrekeyOf(c).pub, OnetimeOf(c, 1).pub,
                                    EphemeralOf(p).pub)),
         Message(them, me,
                 EndExchangePayload(PrekeyOf(c).pub, OnetimeOf(c, 2).pub,
                                    EphemeralOf(p).pub)),
         Message(them, me,
                 EndExchangePayload(PrekeyOf(c).pub, OnetimeOf(p, 1).pub,
                                    EphemeralOf(p).pub)),
         Message(them, me,
                 EndExchangePayload(PrekeyOf(c).pub, OnetimeOf(c, 1).pub,
                                    LowOrderPoint)),
         Message(them, me, MessagePayload(<<"junk">>))}

\* The calls of StartChat made on c's store so far.
StubRuns(c) ==
    Len(client[c].log) + (IF client[c].first = Nil THEN 0 ELSE 1)

\* StartChat called on c's store with a ClientAPI whose Listen gives the
\* frame as the first message: the locals are fresh, the store is as the
\* earlier calls left it, and the query goes to the API's in channel.
StartChatStub(c, frame) ==
    /\ client[c].pc \in {"init", "chat", "failed"}
    /\ StubRuns(c) < MaxRuns
    /\ client' = [client EXCEPT ![c] =
          [RegisteredClient(c) EXCEPT
              !.pc = "wait",
              !.first = frame,
              !.log = IF client[c].first = Nil THEN client[c].log
                      ELSE Append(client[c].log,
                                  [first |-> client[c].first,
                                   pc |-> client[c].pc,
                                   error |-> client[c].error]),
              !.prekeys = client[c].prekeys,
              !.onetimes = client[c].onetimes]]
    /\ up' = [up EXCEPT ![c] =
                 Append(@, Message(IdentityPub(c), client[c].them,
                                   QueryExchangePayload))]
    /\ down' = [down EXCEPT ![c] = <<Pushed(frame, c, "stub", frame.From)>>]
    /\ UNCHANGED <<channels, reader, rawCount, relayVars>>

\* It closes its connection.
RawClose ==
    /\ reader[Rogue].pc # "off"
    /\ ~Closed(Rogue)
    /\ up' = [up EXCEPT ![Rogue] = Append(@, Eof)]
    /\ UNCHANGED <<channels, reader, down, client, rawCount, relayVars>>

RatchetNext ==
    \/ \E s \in Sides :
        RatchetEncrypt(s) /\ UNCHANGED <<exchangeVars, relayVars, chatVars, request, commandVars>>
    \/ \E s \in Sides :
        RatchetDecrypt(s) /\ UNCHANGED <<exchangeVars, relayVars, chatVars, request, commandVars>>

TamperNext ==
    \/ \E s \in Sides :
        RatchetEncrypt(s) /\ UNCHANGED <<exchangeVars, relayVars, chatVars, request, commandVars>>
    \/ \E s \in Sides :
        RatchetDecrypt(s) /\ UNCHANGED <<exchangeVars, relayVars, chatVars, request, commandVars>>
    \/ \E s \in Sides :
        RatchetDecryptForged(s) /\ UNCHANGED <<exchangeVars, relayVars, chatVars, request, commandVars>>

\* Blobs changed on the way between the two ratchets.
WireNext ==
    \/ \E s \in Sides :
        RatchetEncrypt(s) /\ UNCHANGED <<exchangeVars, relayVars, chatVars, request, commandVars>>
    \/ \E s \in Sides :
        RatchetDecrypt(s) /\ UNCHANGED <<exchangeVars, relayVars, chatVars, request, commandVars>>
    \/ \E s \in Sides :
        RatchetDecryptTampered(s)
            /\ UNCHANGED <<exchangeVars, relayVars, chatVars, request, commandVars>>

ExchangeNext ==
    \/ RunForward /\ UNCHANGED <<ratchetVars, relayVars, chatVars, request, commandVars>>
    \/ RunBackward /\ UNCHANGED <<ratchetVars, relayVars, chatVars, request, commandVars>>

\* Requests served one after another.
SessionNext ==
    \/ \E id \in Ids, bundle \in BundlePubs, signer \in Ids :
        onetimeHandler(id, bundle, signer, 0)
            /\ UNCHANGED <<ratchetVars, exchangeVars, chatVars, request, commandVars>>
    \/ \E id \in Ids :
        sessionHandler(id) /\ UNCHANGED <<ratchetVars, exchangeVars, chatVars, request, commandVars>>

\* Session requests served by concurrent handlers.
RelayNext ==
    \/ \E id \in Ids, bundle \in BundlePubs, signer \in Ids,
          failAt \in 0..(BundleLen + 1) :
        onetimeHandler(id, bundle, signer, failAt)
            /\ UNCHANGED <<ratchetVars, exchangeVars, chatVars, request, commandVars>>
    \/ \E p \in Procs, id \in Ids :
        SessionPrekey(p, id) /\ UNCHANGED <<ratchetVars, exchangeVars, chatVars, request, commandVars>>
    \/ \E p \in Procs :
        GetOnetimeSelect(p) /\ UNCHANGED <<ratchetVars, exchangeVars, chatVars, request, commandVars>>
    \/ \E p \in Procs :
        GetOnetimeDelete(p) /\ UNCHANGED <<ratchetVars, exchangeVars, chatVars, request, commandVars>>
    \/ \E p \in Procs :
        GetOnetimeCommit(p) /\ UNCHANGED <<ratchetVars, exchangeVars, chatVars, request, commandVars>>

\* The generate command, with and without --force.
GenerateNext ==
    \/ \E force \in BOOLEAN, saved \in BOOLEAN :
        GenerateCommandRun(force, saved)
            /\ UNCHANGED <<ratchetVars, exchangeVars, relayVars, chatVars>>

\* Pre-key uploads, one after another.
PrekeyNext ==
    \/ \E u \in PrekeyUploads, saved \in BOOLEAN :
        PrekeyUpload(u, saved)
            /\ UNCHANGED <<ratchetVars, exchangeVars, chatVars, commandVars>>

\* Bundle uploads, one after another.
UploadNext ==
    \/ \E id \in Ids, bundle \in BundlePubs, signer \in Ids,
          failAt \in 0..(BundleLen + 1) :
        BundleUpload(id, bundle, signer, failAt)
            /\ UNCHANGED <<ratchetVars, exchangeVars, chatVars, commandVars>>

\* Two clients start a chat with each other.
ChatNext ==
    \/ \E c \in Clients :
        StartChatDial(c) /\ UNCHANGED <<ratchetVars, exchangeVars, request, commandVars>>
    \/ \E id \in Streams :
        RouterListen(id) /\ UNCHANGED <<ratchetVars, exchangeVars, request, commandVars>>
    \/ \E id \in Streams :
        RouterRead(id) /\ UNCHANGED <<ratchetVars, exchangeVars, request, commandVars>>
    \/ \E c \in Clients :
        StartChatFirst(c) /\ UNCHANGED <<ratchetVars, exchangeVars, request, commandVars>>
    \/ \E c \in Clients :
        ChatSend(c) /\ UNCHANGED <<ratchetVars, exchangeVars, request, commandVars>>
    \/ \E c \in Clients :
        ChatReceive(c) /\ UNCHANGED <<ratchetVars, exchangeVars, request, commandVars>>

\* The handshake and the receiving side, with a third stream that writes
\* frames of its choosing.
RouterNext ==
    \/ \E c \in Clients :
        StartChatDial(c) /\ UNCHANGED <<ratchetVars, exchangeVars, request, commandVars>>
    \/ \E id \in Streams :
        RouterListen(id) /\ UNCHANGED <<ratchetVars, exchangeVars, request, commandVars>>
    \/ \E id \in Streams :
        RouterRead(id) /\ UNCHANGED <<ratchetVars, exchangeVars, request, commandVars>>
    \/ \E c \in Clients :
        StartChatFirst(c) /\ UNCHANGED <<ratchetVars, exchangeVars, request, commandVars>>
    \/ \E c \in Clients :
        ChatReceive(c) /\ UNCHANGED <<ratchetVars, exchangeVars, request, commandVars>>
    \/ RawDial /\ UNCHANGED <<ratchetVars, exchangeVars, request, commandVars>>
    \/ \E message \in RawFrames :
        RawSend(message) /\ UNCHANGED <<ratchetVars, exchangeVars, request, commandVars>>
    \/ RawClose /\ UNCHANGED <<ratchetVars, exchangeVars, request, commandVars>>
    \/ \E id \in Streams :
        RouterReadError(id) /\ UNCHANGED <<ratchetVars, exchangeVars, request, commandVars>>

\* StartChat called again and again on client 1's store, each time with a
\* first frame of the API's choosing.
StubNext ==
    \/ \E frame \in StubFrames(1) :
        StartChatStub(1, frame) /\ UNCHANGED <<ratchetVars, exchangeVars, request, commandVars>>
    \/ \E c \in Clients :
        StartChatFirst(c) /\ UNCHANGED <<ratchetVars, exchangeVars, request, commandVars>>

InitRatchet ==
    /\ request = NoRequest
    /\ CommandIdle
    /\ RatchetInit
    /\ ExchangeIdle
    /\ RelayIdle
    /\ ChatIdle

InitExchange ==
    /\ request = NoRequest
    /\ CommandIdle
    /\ ExchangeInit
    /\ RatchetIdle
    /\ RelayIdle
    /\ ChatIdle

InitSession ==
    /\ request = NoRequest
    /\ CommandIdle
    /\ SomeRegisteredInit
    /\ RatchetIdle
    /\ ExchangeIdle
    /\ ChatIdle

InitRelay ==
    /\ request = NoRequest
    /\ CommandIdle
    /\ RegisteredInit
    /\ RatchetIdle
    /\ ExchangeIdle
    /\ ChatIdle

InitChat ==
    /\ request = NoRequest
    /\ CommandIdle
    /\ ChatInit
    /\ RatchetIdle
    /\ ExchangeIdle

\* A client store on which no command has run.
InitGenerate ==
    /\ request = NoRequest
    /\ CommandIdle
    /\ RatchetIdle
    /\ ExchangeIdle
    /\ RelayIdle
    /\ ChatIdle

\* Two ratchets, in-order delivery, nothing forged.
SpecRatchet == InitRatchet /\ [][RatchetNext]_vars

\* The same with forged blobs handed to Decrypt.
SpecTamper == InitRatchet /\ [][TamperNext]_vars

\* The same with blobs changed in flight.
SpecWire == InitRatchet /\ [][WireNext]_vars

\* ForwardExchange and BackwardExchange on matching key material.
SpecExchange == InitExchange /\ [][ExchangeNext]_vars

\* The relay's HTTP handlers, one request at a time.
SpecSession == InitSession /\ [][SessionNext]_vars

\* nuntius generate, run again and again on one store.
SpecGenerate == InitGenerate /\ [][GenerateNext]_vars

\* The relay's pre-key endpoint.
SpecPrekey == InitSession /\ [][PrekeyNext]_vars

\* The relay's bundle endpoint, with the failures saveBundle handles.
SpecUpload == InitSession /\ [][UploadNext]_vars

\* The relay with session requests in flight together.
SpecRelay == InitRelay /\ [][RelayNext]_vars

\* Two registered clients start a chat with each other through the relay.
SpecChat == InitChat /\ [][ChatNext]_vars

\* The router with the two clients and a stream that writes frames of its
\* choosing.
SpecRouter == InitChat /\ [][RouterNext]_vars

\* The goroutines of the relay and of the clients keep running: a listen
\* loop with a frame to read reads it, a client with a frame to read reads
\* it.  Whether and when a user starts a chat or types a line is open.
ChatFairness ==
    /\ \A id \in Streams :
          WF_vars(RouterListen(id) /\ UNCHANGED <<ratchetVars, exchangeVars, request, commandVars>>)
    /\ \A id \in Streams :
          WF_vars(RouterRead(id) /\ UNCHANGED <<ratchetVars, exchangeVars, request, commandVars>>)
    /\ \A c \in Clients :
          WF_vars(StartChatFirst(c) /\ UNCHANGED <<ratchetVars, exchangeVars, request, commandVars>>)
    /\ \A c \in Clients :
          WF_vars(ChatReceive(c) /\ UNCHANGED <<ratchetVars, exchangeVars, request, commandVars>>)

\* Two clients and the relay, with every goroutine scheduled fairly.
SpecChatFair == InitChat /\ [][ChatNext]_vars /\ ChatFairness

\* StartChat against a stub ClientAPI, on the store of a registered client.
SpecStub == InitChat /\ [][StubNext]_vars

-----------------------------------------------------------------------------
(* C1: two ratchets built from the same secret and the responder's signed   *)
(* pre-key stay in step: every ciphertext delivered in order, with its      *)
(* associated data, decrypts without error to the plaintext encrypted.      *)
C1_RatchetsStayInStep ==
    last.kind = "genuine" => (~last.err /\ last.out = last.pt)

\* Both sides have decrypted, the initiator has taken a DH step, and the
\* latest genuine message went initiator-wards.
C1_Witness ==
    /\ last.kind = "genuine"
    /\ last.side = "initiator"
    /\ ratchet["initiator"].receivingPub # GenerateExchange(1).pub
    /\ ratchet["receiver"].receivingKey # Nil
    /\ encCount >= 3

(* C2: a Decrypt that returns an error leaves every field of the ratchet    *)
(* as it was before the call.                                              *)
C2_FailedDecryptLeavesState ==
    last.err => last.after = last.before

(* C3: on matching key material ForwardExchange and BackwardExchange        *)
(* return the same secret, with a one-time key and without one.            *)
C3_ExchangeSymmetry ==
    (forward.done /\ backward.done) =>
        (~forward.err /\ ~backward.err /\ forward.out = backward.out)

\* Both ran with a one-time key, on two different identities.
C3_Witness ==
    /\ forward.done /\ backward.done
    /\ xparams.onetime # 0
    /\ xparams.a # xparams.b
    /\ ~forward.err /\ forward.out = backward.out

\* Both ran without a one-time key: three products only.
C3_WitnessNoOnetime ==
    /\ forward.done /\ backward.done
    /\ xparams.onetime = 0
    /\ Len(forward.out[2]) = 3

(* C4: over any sequence of bundle uploads and session requests, the relay  *)
(* never hands out the same one-time key twice for the same identity.      *)
C4_NeverHandedTwice == ~handedTwice

(* C5: two session requests for the same identity that run concurrently    *)
(* never both return the same one-time key: the keys differ, or a request  *)
(* returns an error.                                                       *)
C5_ConcurrentDispensesDiffer ==
    \A p, q \in Procs :
        (/\ p # q
         /\ handler[p].pc = "done" /\ handler[q].pc = "done"
         /\ handler[p].status = 202 /\ handler[q].status = 202
         /\ handler[p].identity = handler[q].identity
         /\ q \in handler[p].overlap)
            => handler[p].onetime # handler[q].onetime

Distinct(bundle) ==
    \A i, j \in 1..Len(bundle) : i # j => bundle[i] # bundle[j]

\* The relay has stored one bundle, of distinct keys, for identity x, which
\* had a pre-key stored by then.
OneUploadFor(x) ==
    /\ uploads = 1
    /\ firstUpload.identity = x
    /\ firstUpload.prekey
    /\ Distinct(firstUpload.bundle)

C7_UnconnectedDropped ==
    \A id \in Streams : reader[id].pc # "blocked"

(* C8: in every interleaving in which the two clients start a chat with    *)
(* each other, once both have reported connected they hold the same        *)
(* shared secret.                                                          *)
C8_SameSecret ==
    (client[1].pc = "chat" /\ client[2].pc = "chat") =>
        (client[1].key # Nil /\ client[1].key = client[2].key)

(* C9: when a client derives its secret from the end_exchange its peer     *)
(* sent after receiving start_exchange for it, BackwardExchange gives the  *)
(* secret the peer derived with ForwardExchange.                           *)
C9_BackwardEqualsForward ==
    \A b \in Clients :
        client[b].role = "backward" =>
            /\ client[Peer(b)].role = "forward"
            /\ client[b].key # Nil
            /\ client[b].key = client[Peer(b)].key

\* A client is connected as responder, on the second key of its bundle.
C9_Witness ==
    \E b \in Clients :
        /\ client[b].pc = "chat"
        /\ client[b].role = "backward"
        /\ client[Peer(b)].role = "forward"
        /\ client[b].key = client[Peer(b)].key
        /\ \A r \in client[b].onetimes : r.public = OnetimeOf(b, 1).pub

(* C10: every frame pushed onto a recipient's channel by the forwarding    *)
(* path carries From = the identity the sending stream registered under,  *)
(* whatever From its writer put in it.                                     *)
C10_FromIsSender ==
    \A id \in Streams :
        \A i \in 1..Len(down[id]) :
            down[id][i].path = "forward" =>
                down[id][i].message.From = IdentityPub(down[id][i].pushedBy)

\* A forwarded frame whose writer had claimed another identity.
C10_Witness ==
    \E id \in Streams :
        \E i \in 1..Len(down[id]) :
            /\ down[id][i].path = "forward"
            /\ down[id][i].pushedBy = Rogue
            /\ down[id][i].claimed = IdentityPub(1)
            /\ down[id][i].message.From = IdentityPub(Rogue)

\* The stream's listen loop takes a query_exchange frame for a connected
\* identity that has a pre-key and a one-time key stored.
AnsweredQuery(id) ==
    /\ up[id] # <<>>
    /\ up'[id] = Tail(up[id])
    /\ Head(up[id]).Payload.type = "query_exchange"
    /\ Head(up[id]).To \in DOMAIN channels
    /\ ~getPrekey(prekeyTable, Head(up[id]).To).err
    /\ SelectOnetime(onetimeTable, Head(up[id]).To) # {}

Returned(c) ==
    IF client[c].first = Nil \/ client[c].pc = "wait" THEN client[c].log
    ELSE Append(client[c].log,
                [first |-> client[c].first, pc |-> client[c].pc,
                 error |-> client[c].error])

\* The latest call has returned after reading a start_exchange whose
\* signature is not the peer's signature over its pre-key.
BadSignatureRead(c) ==
    /\ client[c].first # Nil
    /\ client[c].pc # "wait"
    /\ client[c].first.Payload.type = "start_exchange"
    /\ client[c].first.Payload.Sig #
          Sign(IdentityPriv(Peer(c)), client[c].first.Payload.Prekey)

\* It returned an error, connected to nobody, and its query is the last
\* frame it wrote.
NothingSent(c) ==
    /\ client[c].pc = "failed"
    /\ client[c].key = Nil
    /\ up[c][Len(up[c])].Payload.type = "query_exchange"

(* C12 as stated: if the signature in start_exchange does not verify under  *)
(* the peer's identity over the pre-key, StartChat returns the error        *)
(* "couldn't verify prekey signature", sends no end_exchange and does not   *)
(* report connected.                                                        *)
C12_BadSignatureError ==
    \A c \in Clients :
        BadSignatureRead(c) =>
            /\ NothingSent(c)
            /\ client[c].error = "couldn't verify prekey signature"

(* C12 amended: on such a start_exchange StartChat returns an error, sends  *)
(* no end_exchange and does not report connected; the error is "couldn't    *)
(* verify prekey signature" when the pre-key has the length of an exchange  *)
(* key, and the length error of ExchangePubFromBytes when it has not.       *)
C12_BadSignatureRejected ==
    \A c \in Clients :
        BadSignatureRead(c) =>
            /\ NothingSent(c)
            /\ client[c].error =
                  IF ExchangePubFromBytes(client[c].first.Payload.Prekey).err
                  THEN "prekey"
                  ELSE "couldn't verify prekey signature"

\* The peer's own pre-key came with another identity's signature over it.
C12_Witness ==
    /\ BadSignatureRead(1)
    /\ client[1].first.Payload.Prekey = PrekeyOf(2).pub
    /\ client[1].first.Payload.Sig =
          Sign(IdentityPriv(Rogue), PrekeyOf(2).pub)
    /\ client[1].error = "couldn't verify prekey signature"

C14_ForeignFramesDiscarded ==
    [][\A c \in Clients :
        (/\ down[c] # <<>>
         /\ down'[c] = Tail(down[c])
         /\ Head(down[c]).message.From \notin {Nil, client[c].them})
            => client'[c] = client[c]]_vars

(* C15: when an identity's stream disconnects and the reads of its listen  *)
(* loop start to fail, the loop ends and the identity's entry leaves the   *)
(* connected-peer table: no listen loop that has seen a read fail goes on  *)
(* with its identity still in the table.                                   *)
C15_DisconnectDeregisters ==
    \A id \in Streams :
        reader[id].pc = "erring" => StreamIdentity(id) \notin DOMAIN channels

(* C16: StartChat does not wait forever: a client that has sent its        *)
(* query_exchange and waits for the first frame eventually leaves the      *)
(* wait, with a key or with an error, also when the relay never answers.   *)
C16_StartChatReturns ==
    \A c \in Clients : (client[c].pc = "wait") ~> (client[c].pc # "wait")

\* The message keys either side has encrypted with, one entry per call.
AllSentKeys == sentKeys["initiator"] \o sentKeys["receiver"]

(* C17: within a session no message key is used for more than one message: *)
(* the message keys used by all Encrypt calls of the two endpoints are     *)
(* pairwise different, on one ratchet and across the two.                  *)
C17_MessageKeysUsedOnce ==
    \A i, j \in 1..Len(AllSentKeys) :
        i # j => AllSentKeys[i] # AllSentKeys[j]

\* Both sides have encrypted more than once, the receiver on two sending
\* chains (before and after a DH step).
C17_Witness ==
    /\ Len(sentKeys["initiator"]) >= 2
    /\ Len(sentKeys["receiver"]) >= 2
    /\ sentKeys["receiver"][1] = kdfChainKey(Nil).messageKey
    /\ ratchet["receiver"].receivingKey # Nil
    /\ sentKeys["receiver"][2] # kdfChainKey(kdfChainKey(Nil).chainKey).messageKey

(* C18: a ciphertext produced by Encrypt that reaches the peer's Decrypt   *)
(* with a byte changed in its header, nonce, body or tag, or with other    *)
(* associated data, makes Decrypt return an error and no plaintext.        *)
C18_TamperedRejected ==
    last.kind \in TamperKinds => (last.err /\ last.out = Nil)

\* A blob whose nonce was changed was rejected by a ratchet that had
\* decrypted genuine blobs before.
C18_Witness ==
    /\ last.kind = "nonce"
    /\ last.err
    /\ last.before.receivingKey # Nil

\* A pre-key upload the claim calls rejected: the path is not base64 or
\* not an identity, the key has the wrong length, or the signature is not
\* the identity's signature over the bytes sent.
RejectedUpload(q) ==
    \/ q.id[1] # "base64"
    \/ ~IsIdentity(q.id[2])
    \/ ExchangePubFromBytes(q.prekey).err
    \/ q.sig # Sign(IdentityPriv(q.id[2][2]), q.prekey)

\* A pre-key row that verifies under its identity.
RowVerifies(r) ==
    /\ IsIdentity(r.identity)
    /\ r.signature = Sign(IdentityPriv(r.identity[2]), r.prekey)

\* C19: every row of the relay's pre-key table carries its identity's
\* signature over its pre-key bytes; a pre-key upload that is rejected (bad
\* signature, path that is not a base64 identity, key of the wrong length)
\* is answered with status 400 and leaves the table as it was; an upload
\* that is not rejected either replaces the row of the identity in the path
\* and nothing else (202) or, when the store fails, changes nothing (500).
C19_PrekeyRowsVerify ==
    /\ \A r \in prekeyTable : RowVerifies(r)
    /\ request.op = "prekey" =>
           IF RejectedUpload(request)
           THEN /\ reply = [op |-> "prekey", status |-> 400]
                /\ prekeyTable = request.before
           ELSE IF request.saved
           THEN /\ reply = [op |-> "prekey", status |-> 202]
                /\ prekeyTable =
                       {r \in request.before : r.identity # request.id[2]}
                           \cup {[identity |-> request.id[2],
                                  prekey |-> request.prekey,
                                  signature |-> request.sig]}
           ELSE /\ reply = [op |-> "prekey", status |-> 500]
                /\ prekeyTable = request.before

\* C19 witness: an upload signed by another identity was refused while the
\* identity in its path had a row, which is still there.
C19_Witness ==
    /\ request.op = "prekey"
    /\ request.id = Base64Of(IdentityPub(1))
    /\ request.sig = Sign(IdentityPriv(2), request.prekey)
    /\ ~ExchangePubFromBytes(request.prekey).err
    /\ reply = [op |-> "prekey", status |-> 400]
    /\ \E r \in prekeyTable :
           r.identity = IdentityPub(1) /\ r.prekey # request.prekey

\* How often key k is outstanding for identity x in the one-time table.
Outstanding(rows, x, k) ==
    Cardinality({r \in rows : r.identity = x /\ r.onetime = k})

\* How often key k appears in a bundle.
Occurrences(bundle, k) ==
    Cardinality({i \in 1..Len(bundle) : bundle[i] = k})

\* C20: after a bundle upload for identity X is answered: if the
\* signature verifies and no statement of the transaction fails, each key of
\* the bundle is outstanding for X once more per appearance in the bundle,
\* the answer is 202, and no other row changed; if the signature does not
\* verify, an insert fails or the commit fails, the table is what it was.
C20_BundleAllOrNothing ==
    request.op = "onetime" =>
        LET x == IdentityPub(request.id)
            keys == {r.onetime : r \in onetimeTable \cup request.before}
                        \cup {request.bundle[i] :
                                  i \in 1..Len(request.bundle)}
        IN  IF request.signer = request.id /\ request.failAt = 0
            THEN /\ reply.status = 202
                 /\ request.before \subseteq onetimeTable
                 /\ \A r \in onetimeTable \ request.before : r.identity = x
                 /\ \A k \in keys :
                        Outstanding(onetimeTable, x, k) =
                            Outstanding(request.before, x, k)
                                + Occurrences(request.bundle, k)
            ELSE /\ reply.status # 202
                 /\ onetimeTable = request.before

\* C20 witness: the last insert of a verified bundle failed while the
\* identity had keys outstanding; the upload was answered 500.
C20_Witness ==
    /\ request.op = "onetime"
    /\ reply = [op |-> "onetime", status |-> 500]
    /\ request.signer = request.id
    /\ request.failAt = BundleLen
    /\ \E r \in onetimeTable : r.identity = IdentityPub(request.id)

\* C20 witness of the other half: a verified bundle was stored whole.
C20_WitnessStored ==
    /\ request.op = "onetime"
    /\ reply = [op |-> "onetime", status |-> 202]
    /\ request.before # {}
    /\ Cardinality(onetimeTable) = Cardinality(request.before) + BundleLen

\* C21: when one client of a chat is connected as initiator (it answered
\* start_exchange) and the other as responder (it read the initiator's
\* end_exchange), both hold the same associated data, the initiator's
\* identity followed by the responder's, and a message sealed by either
\* side opens on the other to its plaintext.
C21_SameAssociatedData ==
    \A b \in Clients :
        LET a == Peer(b)
        IN  (client[b].role = "backward" /\ client[a].role = "forward") =>
                /\ client[a].additional = client[b].additional
                /\ client[a].additional =
                       concat(IdentityPub(a), IdentityPub(b))
                /\ \A s \in {a, b} :
                       LET sealed ==
                               SharedKeyEncrypt(client[s].key, <<s, 1>>,
                                                <<"text", s, 1>>,
                                                client[s].additional)
                       IN  /\ ~sealed.err
                           /\ SharedKeyDecrypt(client[Peer(s)].key,
                                               sealed.out,
                                               client[Peer(s)].additional)
                                  = [err |-> FALSE, out |-> <<"text", s, 1>>]

\* C21 witness: the responder has shown a line the initiator sent and the
\* initiator one the responder sent.
C21_Witness ==
    \E b \in Clients :
        /\ client[b].role = "backward"
        /\ client[Peer(b)].role = "forward"
        /\ client[b].shown # <<>>
        /\ client[Peer(b)].shown # <<>>

\* The type tags Payload.UnmarshalJSON knows.
PayloadTags == {"message", "query_exchange", "start_exchange", "end_exchange"}

\* C22: a frame the relay reads decodes to the variant that was encoded,
\* with its fields, when its type tag is message, query_exchange,
\* start_exchange or end_exchange; with any other type tag or none,
\* decoding fails and the relay routes nothing for the frame (no channel
\* gets a frame and the reader makes no send).
C22_UnknownTagNotRouted ==
    [][\A id \in Streams :
           (/\ up[id] # <<>>
            /\ Head(up[id]) # Eof
            /\ up'[id] = Tail(up[id])) =>
               LET frame == Head(up[id])
               IN  IF frame.Payload.type \in PayloadTags
                   THEN ReadJSON(frame) = [err |-> FALSE, message |-> frame]
                   ELSE /\ ReadJSON(frame).err
                        /\ down' = down
                        /\ reader' = reader]_vars

\* C23: after a generate command: without --force on a store that held
\* an identity, the stored public and private key are what they were; with
\* --force, or on an empty store, the table holds the new pair and nothing
\* else when the save succeeds and is what it was when it fails; and the
\* table never holds more than one row.
C23_GenerateKeepsOrReplaces ==
    /\ Cardinality(identityTable) <= 1
    /\ request.op = "generate" =>
           IF request.before # {} /\ ~request.force
           THEN identityTable = request.before
           ELSE IF request.saved
           THEN /\ identityTable =
                       {[id |-> TRUE, public |-> request.pair.pub,
                         private |-> request.pair.priv]}
                /\ \A r \in request.before :
                       /\ r.public # request.pair.pub
                       /\ r.private # request.pair.priv
           ELSE identityTable = request.before

\* C23 witness: generate --force has replaced a stored identity, and a
\* generate without --force after it has left the new one alone.
C23_Witness ==
    /\ request.op = "generate"
    /\ ~request.force
    /\ generated >= 2
    /\ identityTable = {[id |-> TRUE, public |-> IdentityPub(generated),
                         private |-> IdentityPriv(generated)]}

RoundtripInputs ==
    [pt : {Nil, TestPlaintext(1)},
     aad : {TestAdditional(i) : i \in 0..MaxMsgs} \cup {Nil}]

RowsOfOthers(rows, x) == {r \in rows : r.identity # IdentityPub(x)}

\* C26: a session request for identity X leaves the one-time rows of every
\* other identity as they were, also when another identity has uploaded a
\* key value that X has uploaded.
C26_DispenseLeavesOthers ==
    [][\A x \in Ids :
           Len(since'[x]) = Len(since[x]) + 1 =>
               RowsOfOthers(onetimeTable', x) = RowsOfOthers(onetimeTable, x)
      ]_vars

\* A session request for x is answered with a one-time key in this step.
Dispensed(x) ==
    /\ Len(since'[x]) = Len(since[x]) + 1
    /\ since'[x][Len(since'[x])] # Nil

\* C27: each session request for identity X that is answered with a key
\* lowers the count the count endpoint returns for X by exactly one, and
\* the key differs from the one the session request before it for X was
\* answered with (so two sessions back to back return two different keys
\* and lower the count by 2).
C27_DispenseLowersCountByOne ==
    [][\A x \in Ids :
           Dispensed(x) =>
               /\ countOnetimes(onetimeTable', IdentityPub(x)) =
                      countOnetimes(onetimeTable, IdentityPub(x)) - 1
               /\ since[x] # <<>> =>
                      since'[x][Len(since'[x])] # since[x][Len(since[x])]
      ]_vars

\* C28: when getOnetime returns from its commit: if it returns a key (the
\* request is answered 202), the delete of that key is committed, so no
\* row of the identity holds it any more; if it returns an error, the table
\* is what it was.
C28_KeyOnlyIfCommitted ==
    [][\A p \in Procs :
           (handler[p].pc = "deleted" /\ handler'[p].pc = "done") =>
               IF handler'[p].status = 202
               THEN \A r \in SelectOnetime(onetimeTable',
                                           IdentityPub(handler[p].identity)) :
                        r.onetime # handler[p].onetime
               ELSE onetimeTable' = onetimeTable
      ]_vars

\* C29: once Decrypt has been handed blobs the peer did not produce (with
\* the header the ratchet saw last or with a new one), every genuine
\* ciphertext of the peer that reaches Decrypt afterwards, in order, still
\* decrypts to its plaintext.
C29_SessionSurvivesForgery ==
    (forgeCount > 0 /\ last.kind = "genuine") =>
        (last.err = FALSE /\ last.out = last.pt)

\* The chain key n steps of kdfChainKey after an absent (nil) chain key:
\* none of them depends on the shared secret.
RECURSIVE AbsentChain(_)
AbsentChain(n) ==
    IF n = 0 THEN Nil ELSE kdfChainKey(AbsentChain(n - 1)).chainKey

\* C30: no Encrypt call of a session uses a message key derived from an
\* absent sending chain, that is, a key anyone can compute without the
\* shared secret.
C30_NoKeyFromAbsentChain ==
    \A i \in 1..Len(AllSentKeys) :
        \A n \in 0..MaxMsgs :
            AllSentKeys[i] # kdfChainKey(AbsentChain(n)).messageKey

\* C31: a client whose StartChat has returned connected holds a shared
\* secret derived from a start_exchange or an end_exchange; after a first
\* frame of any other payload it is not connected with an empty key.
C31_ConnectedHasSecret ==
    \A c \in Clients :
        client[c].pc = "chat" =>
            /\ client[c].key # Nil
            /\ client[c].role \in {"forward", "backward"}

\* The oldest blob in flight to s carries the public key s saw last.
SameHeaderInFlight(s) ==
    /\ wire[s] # <<>>
    /\ Head(wire[s]).blob.header = ratchet[s].receivingPub

\* C32: a Decrypt whose header equals the current receivingPub performs
\* only the symmetric step: receivingKey advances by one kdfChainKey step
\* and sendingPub, sendingPriv, receivingPub, rootKey and sendingKey are
\* unchanged.
C32_SameHeaderSymmetricOnly ==
    [][\A s \in Sides :
         (SameHeaderInFlight(s) /\ wire'[s] = Tail(wire[s])) =>
             ratchet'[s] =
                 [ratchet[s] EXCEPT
                     !.receivingKey = kdfChainKey(@).chainKey]]_vars

\* A genuine blob was decrypted without a change of receivingPub, after an
\* earlier one had set it.
C32_Witness ==
    /\ last.kind = "genuine"
    /\ ~last.err
    /\ last.before.receivingPub # Nil
    /\ last.before.receivingKey # Nil
    /\ last.after.receivingPub = last.before.receivingPub
    /\ last.after.receivingKey # last.before.receivingKey

\* C33: whenever Y's receivingPub equals X's sendingPub and no ciphertext
\* from X to Y is in flight, Y's receiving chain key equals X's sending
\* chain key (blobs are delivered in order, one ratchet call at a time).
C33_ChainsAgree ==
    \A x \in Sides :
        LET y == Other(x)
        IN  (ratchet[y].receivingPub = ratchet[x].sendingPub
             /\ wire[y] = <<>>) =>
                ratchet[y].receivingKey = ratchet[x].sendingKey

\* Both directions are drained after each side has answered the other, and
\* the chains that agree are derived ones.
C33_Witness ==
    \E x \in Sides :
        /\ ratchet[Other(x)].receivingPub = ratchet[x].sendingPub
        /\ wire[Other(x)] = <<>>
        /\ Len(sentKeys[x]) >= 2
        /\ Len(sentKeys[Other(x)]) >= 1
        /\ last.kind = "genuine" /\ last.side = Other(x) /\ ~last.err
        /\ ratchet[x].sendingKey # Nil
        /\ ratchet[x].sendingKey[1] = "hmac0"
        /\ ratchet[Other(x)].receivingKey = ratchet[x].sendingKey

-----------------------------------------------------------------------------
(* Dispense requests over both paths, POST /session/{id} and a             *)
(* query_exchange frame on /rtc, at a relay where some identities have      *)
(* uploaded one-time keys without having registered a signed pre-key.       *)

DispenseInit ==
    /\ ChatIdle
    /\ \E registered \in SUBSET Ids :
        prekeyTable =
           {[identity |-> IdentityPub(i), prekey |-> PrekeyOf(i).pub,
             signature |-> Sign(IdentityPriv(i), PrekeyOf(i).pub)] :
                i \in registered}
    /\ onetimeTable =
           saveBundle(saveBundle({}, IdentityPub(1), ClientBundle(1)),
                      IdentityPub(2), ClientBundle(2))
    /\ uploads = 0
    /\ firstUpload = Nil
    /\ reply = NoReply
    /\ since = [i \in Ids |-> <<>>]
    /\ handedKeys = [i \in Ids |-> {}]
    /\ handedTwice = FALSE
    /\ requests = 0
    /\ handler = [p \in Procs |-> IdleHandler]

InitDispense ==
    /\ request = NoRequest
    /\ CommandIdle
    /\ DispenseInit
    /\ RatchetIdle
    /\ ExchangeIdle

DispenseNext ==
    \/ \E id \in Ids :
        sessionHandler(id)
            /\ UNCHANGED <<ratchetVars, exchangeVars, chatVars, request,
                           commandVars>>
    \/ \E c \in Clients :
        StartChatDial(c)
            /\ UNCHANGED <<ratchetVars, exchangeVars, request, commandVars>>
    \/ \E id \in Clients :
        RouterListen(id)
            /\ UNCHANGED <<ratchetVars, exchangeVars, request, commandVars>>
    \/ \E id \in Clients :
        RouterRead(id)
            /\ UNCHANGED <<ratchetVars, exchangeVars, request, commandVars>>

SpecDispense == InitDispense /\ [][DispenseNext]_vars

\* The one-time keys the relay holds for identity x.
RowsOf(x) == {r \in onetimeTable : r.identity = x}

\* The next state's rows of x.
RowsOfNext(x) == {r \in onetimeTable' : r.identity = x}

\* This step is a session request for identity id.
SessionStep(id) ==
    /\ requests' = requests + 1
    /\ Len(since'[id]) = Len(since[id]) + 1

\* This step is stream id's reader taking a query_exchange frame.
QueryStep(id) ==
    /\ reader[id].pc = "run"
    /\ up[id] # <<>>
    /\ up'[id] = Tail(up[id])
    /\ IsIdentity(Head(up[id]).To)
    /\ Head(up[id]).Payload.type = "query_exchange"

\* C34: a dispense request that cannot be answered consumes nothing: when
\* the target has no stored pre-key, or when the target of a
\* query_exchange is not connected, the target's one-time keys are
\* unchanged.
C34_UnansweredConsumesNothing ==
    [][/\ \A id \in Ids :
            (SessionStep(id)
             /\ getPrekey(prekeyTable, IdentityPub(id)).err) =>
                RowsOfNext(IdentityPub(id)) = RowsOf(IdentityPub(id))
       /\ \A id \in Clients :
            LET idTo == Head(up[id]).To
            IN  (QueryStep(id)
                 /\ (idTo \notin DOMAIN channels
                     \/ getPrekey(prekeyTable, idTo).err)) =>
                    /\ RowsOfNext(idTo) = RowsOf(idTo)
                    /\ down' = down]_vars

\* A session request for an identity that holds one-time keys and no
\* pre-key has been refused.
RefusedSession ==
    \E id \in Ids :
        /\ getPrekey(prekeyTable, IdentityPub(id)).err
        /\ RowsOf(IdentityPub(id)) # {}
        /\ reply = [op |-> "session", status |-> 500]
        /\ Len(since[id]) > 0

\* A query was read while its target held keys and a pre-key and had not
\* connected: the asker's frame is gone and nothing came back.
DroppedQuery ==
    \E c \in Clients :
        /\ client[c].pc = "wait"
        /\ reader[c].pc = "run"
        /\ up[c] = <<>>
        /\ down[c] = <<>>
        /\ client[c].them \notin DOMAIN channels
        /\ ~getPrekey(prekeyTable, client[c].them).err
        /\ RowsOf(client[c].them) # {}

\* Both kinds of unanswered dispense request have happened.
C34_Witness == RefusedSession /\ DroppedQuery

-----------------------------------------------------------------------------
(* nuntius register (RegisterCommand.Run), run on the store of a client    *)
(* that holds its identity pair.                                            *)

\* INSERT OR REPLACE INTO prekey (public, private): public is the primary
\* key of the client's table.
SavePrekey(prekeys, pub, priv) ==
    {r \in prekeys : r.public # pub}
        \cup {[public |-> pub, private |-> priv]}

\* RegisterCommand.Run on client c's store.  accepted: whether the relay
\* stores the pre-key (SendPrekey returns an error on any status outside
\* 2xx); saved: whether the client's SavePrekey succeeds.  Each run draws
\* a scalar no earlier call of GenerateExchange has drawn.
RegisterCommandRun(c, accepted, saved) ==
    LET pub == IdentityPub(c)
        priv == IdentityPriv(c)
        kp == GenerateExchange(200 + generated + 1)
        sig == Sign(priv, kp.pub)
    IN  /\ generated < MaxGenerate
        /\ generated' = generated + 1
        /\ prekeyHandler(Base64Of(pub), kp.pub, sig, accepted)
        /\ client' =
               IF reply'.status = 202 /\ saved
               THEN [client EXCEPT
                        ![c].prekeys = SavePrekey(@, kp.pub, kp.priv)]
               ELSE client
        /\ request' = [op |-> "register", client |-> c,
                       accepted |-> accepted, saved |-> saved, pair |-> kp]
        /\ UNCHANGED <<identityTable, channels, reader, up, down, rawCount>>

RegisterNext ==
    \/ \E c \in Clients, accepted \in BOOLEAN, saved \in BOOLEAN :
        RegisterCommandRun(c, accepted, saved)
            /\ UNCHANGED <<ratchetVars, exchangeVars>>

\* Clients that run register again and again, against a relay that holds
\* the pre-keys of some of them.
SpecRegister == InitSession /\ [][RegisterNext]_vars

\* C35: every signed pre-key the relay holds for an identity has its
\* private half in that identity's client store, so that the relay hands
\* out no pre-key its owner cannot look up, also after a local save that
\* failed during register.
C35_RelayPrekeysAreSaved ==
    \A r \in prekeyTable :
        \A c \in Clients :
            r.identity = IdentityPub(c) =>
                \E k \in client[c].prekeys : k.public = r.prekey

-----------------------------------------------------------------------------
(* One identity connected twice: client 1 chats, a second connection is    *)
(* opened under its identity, and the first one ends.                       *)

\* The second connection is opened while the first is being served.
SecondDial ==
    /\ reader[Second].pc = "off"
    /\ reader[1].pc = "run"
    /\ reader' = [reader EXCEPT ![Second].pc = "accepted"]
    /\ UNCHANGED <<channels, up, down, client, rawCount, relayVars>>

\* Client c's process ends, by an error of StartChat or by the user, and
\* its connection is closed.
ClientExit(c) ==
    /\ reader[c].pc # "off"
    /\ ~Closed(c)
    /\ up' = [up EXCEPT ![c] = Append(@, Eof)]
    /\ client' = [client EXCEPT ![c].pc = "exited"]
    /\ UNCHANGED <<channels, reader, down, rawCount, relayVars>>

ReconnectNext ==
    \/ \E c \in Clients :
        StartChatDial(c)
            /\ UNCHANGED <<ratchetVars, exchangeVars, request, commandVars>>
    \/ \E id \in Streams :
        RouterListen(id)
            /\ UNCHANGED <<ratchetVars, exchangeVars, request, commandVars>>
    \/ \E id \in Streams :
        RouterRead(id)
            /\ UNCHANGED <<ratchetVars, exchangeVars, request, commandVars>>
    \/ \E id \in Streams :
        RouterReadError(id)
            /\ UNCHANGED <<ratchetVars, exchangeVars, request, commandVars>>
    \/ \E c \in Clients :
        StartChatFirst(c)
            /\ UNCHANGED <<ratchetVars, exchangeVars, request, commandVars>>
    \/ SecondDial
            /\ UNCHANGED <<ratchetVars, exchangeVars, request, commandVars>>
    \/ ClientExit(1)
            /\ UNCHANGED <<ratchetVars, exchangeVars, request, commandVars>>

SpecReconnect == InitChat /\ [][ReconnectNext]_vars

\* C36: an identity with a live stream stays in the connected-peer table:
\* once the same identity has connected a second time, the end of the
\* earlier stream does not remove the later stream's entry, and frames
\* addressed to the identity still reach the later stream.
C36_LaterStreamStaysRegistered ==
    reader[Second].pc = "run" =>
        /\ StreamIdentity(Second) \in DOMAIN channels
        /\ channels[StreamIdentity(Second)] = Second
        /\ \A id \in Streams :
               reader[id].pc = "blocked" =>
                   reader[id].held.To # StreamIdentity(Second)

\* The frames of queue q that stream s's reader pushed, in queue order.
FromSender(q, s) == SelectSeq(q, LAMBDA f : f.pushedBy = s)

\* C37: the frames one sender's reader pushes onto a recipient's channel
\* are written to the recipient's stream in the order they were pushed,
\* whatever other senders push in between: a push puts the frame behind
\* the sender's earlier ones, and the frame written is the oldest waiting.
C37_PerSenderFifo ==
    [][\A r \in Streams :
         /\ \A s \in Streams :
              LET a == FromSender(down[r], s)
                  b == FromSender(down'[r], s)
              IN  \/ b = a
                  \/ /\ Len(b) = Len(a) + 1
                     /\ SubSeq(b, 1, Len(a)) = a
                     /\ Len(down'[r]) = Len(down[r]) + 1
                  \/ /\ a # <<>>
                     /\ b = Tail(a)
                     /\ down'[r] = Tail(down[r])
         /\ \/ down'[r] = down[r]
            \/ down[r] # <<>> /\ down'[r] = Tail(down[r])
            \/ /\ Len(down'[r]) = Len(down[r]) + 1
               /\ SubSeq(down'[r], 1, Len(down[r])) = down[r]]_vars

\* Two frames of one sender wait on a recipient's channel behind a frame
\* of another sender.
C37_Witness ==
    \E r \in Streams, s \in Streams :
        /\ Len(FromSender(down[r], s)) >= 2
        /\ Len(down[r]) > Len(FromSender(down[r], s))

\* C38: Decrypt on a blob shorter than the 32 bytes of a public key
\* returns the error "ciphertext does not contain public key" and leaves
\* every field of the ratchet unchanged.
C38_ShortBlobRejected ==
    /\ \A s \in Sides :
         Decrypt(ratchet[s], ShortBlob, TestAdditional(encCount), nextScalar)
             = [ratchet |-> ratchet[s], err |-> TRUE, out |-> Nil,
                msg |-> "ciphertext does not contain public key"]
    /\ (last.kind = "forged" /\ last.msg = NoPublicKey) =>
           (last.err /\ last.out = Nil /\ last.after = last.before)

\* A short blob was handed to a ratchet that had sent and received.
C38_Witness ==
    /\ last.kind = "forged"
    /\ last.err
    /\ last.msg = "ciphertext does not contain public key"
    /\ last.after = last.before
    /\ last.before.receivingKey # Nil
    /\ last.before.sendingKey # Nil

\* Decrypt on a blob cut to fewer than ExchangePubSize bytes.
RatchetDecryptShort(s) ==
    /\ forgeCount < MaxForged
    /\ LET d == Decrypt(ratchet[s], ShortBlob, TestAdditional(encCount),
                        nextScalar)
       IN  /\ ratchet' = [ratchet EXCEPT ![s] = d.ratchet]
           /\ last' = [kind |-> "forged", side |-> s, err |-> d.err,
                       msg |-> d.msg, out |-> d.out, pt |-> Nil,
                       before |-> ratchet[s], after |-> d.ratchet]
    /\ forgeCount' = forgeCount + 1
    /\ nextScalar' = nextScalar + 1
    /\ UNCHANGED <<wire, encCount, sentKeys>>

ShortNext ==
    \/ \E s \in Sides :
        RatchetEncrypt(s)
            /\ UNCHANGED <<exchangeVars, relayVars, chatVars, request,
                           commandVars>>
    \/ \E s \in Sides :
        RatchetDecrypt(s)
            /\ UNCHANGED <<exchangeVars, relayVars, chatVars, request,
                           commandVars>>
    \/ \E s \in Sides :
        RatchetDecryptShort(s)
            /\ UNCHANGED <<exchangeVars, relayVars, chatVars, request,
                           commandVars>>

\* The two ratchets with truncated blobs handed to Decrypt now and then.
SpecShort == InitRatchet /\ [][ShortNext]_vars

\* This step is side s's Encrypt: its blob is the newest in flight to the
\* other side.
EncryptStep(s) ==
    /\ encCount' = encCount + 1
    /\ Len(wire'[Other(s)]) = Len(wire[Other(s)]) + 1

\* C39: Encrypt changes only the sending chain key: sendingPub,
\* sendingPriv, receivingPub, rootKey and receivingKey are the same after
\* the call as before, and the header of the blob it returns is the
\* sendingPub held at the time of the call.
C39_EncryptChangesSendingKeyOnly ==
    [][\A s \in Sides :
         EncryptStep(s) =>
             /\ ratchet'[s] =
                    [ratchet[s] EXCEPT !.sendingKey = ratchet'[s].sendingKey]
             /\ ratchet'[s].sendingKey # ratchet[s].sendingKey
             /\ wire'[Other(s)][Len(wire'[Other(s)])].blob.header
                    = ratchet[s].sendingPub]_vars

\* A side that has received, and so has every field set, has encrypted:
\* its newest blob carries its public key and its chain has moved on.
C39_Witness ==
    \E s \in Sides :
        /\ wire[Other(s)] # <<>>
        /\ ratchet[s].receivingKey # Nil
        /\ ratchet[s].receivingPub # Nil
        /\ wire[Other(s)][Len(wire[Other(s)])].blob.header
               = ratchet[s].sendingPub
        /\ ratchet[s].sendingKey[1] = "hmac0"
        /\ Len(sentKeys[s]) >= 2

\* The message keys kdfChainKey yields from chain key ck and from its
\* first n successors.
RECURSIVE MessageKeysFrom(_, _)
MessageKeysFrom(ck, n) ==
    {kdfChainKey(ck).messageKey}
        \cup (IF n = 0 THEN {}
              ELSE MessageKeysFrom(kdfChainKey(ck).chainKey, n - 1))

\* The public keys an endpoint's state and the blobs in flight show.
KnownPubs(s) ==
    {ratchet[s].receivingPub, ratchet[s].sendingPub}
        \cup {wire[s][i].blob.header : i \in 1..Len(wire[s])}
        \cup {wire[Other(s)][i].blob.header : i \in 1..Len(wire[Other(s)])}

\* The chain keys kdfRootKey yields from the endpoint's root key and the
\* exchanges its private key allows.
RootChainKeys(s) ==
    {kdfRootKey(ratchet[s].rootKey,
                exchange(ratchet[s].sendingPriv, p).out).chainKey :
        p \in {q \in KnownPubs(s) : ~exchange(ratchet[s].sendingPriv, q).err}}

\* Every message key that kdfChainKey and kdfRootKey give from the
\* endpoint's current state.
ReachableKeys(s) ==
    UNION {MessageKeysFrom(ck, MaxMsgs) :
              ck \in {ratchet[s].sendingKey, ratchet[s].receivingKey}
                        \cup RootChainKeys(s)}

\* The keys of the messages endpoint s has encrypted, and of those it has
\* decrypted: the peer's that are no longer in flight.
UsedKeys(s) ==
    {sentKeys[s][i] : i \in 1..Len(sentKeys[s])}
        \cup {sentKeys[Other(s)][i] :
                 i \in 1..(Len(sentKeys[Other(s)]) - Len(wire[s]))}

\* C40: forward secrecy of the ratchet state: once an endpoint has
\* encrypted or decrypted a message, that message's key cannot be obtained
\* from the endpoint's current state by applying kdfChainKey and
\* kdfRootKey.
C40_UsedKeysNotReachable ==
    \A s \in Sides : UsedKeys(s) \cap ReachableKeys(s) = {}

====
